---- MODULE Spec2Model ----
(***************************************************************************)
(* A model of the WeFlow export pipeline                                   *)
(* (src/electron/services/exportService.ts).                               *)
(*                                                                         *)
(* Text is a sequence of one-character strings; markup that the code only  *)
(* ever matches as a whole (an XML tag, a CDATA bracket) is one element.   *)
(* A function that may throw returns a record [ex, v]: ex = TRUE is a      *)
(* thrown exception, ex = FALSE a normal return of v.                      *)
(***************************************************************************)
EXTENDS Integers, Sequences, FiniteSets, TLC

VARIABLES dec, par, mrg, exp, bat, med, net

vars == <<dec, par, mrg, exp, bat, med, net>>

(***************************************************************************)
(* Generic helpers                                                         *)
(***************************************************************************)
Ret(v) == [ex |-> FALSE, v |-> v]

Throw == [ex |-> TRUE, v |-> <<>>]

RECURSIVE SeqsUpTo(_, _)
SeqsUpTo(S, n) ==
  IF n = 0 THEN {<<>>}
  ELSE LET shorter == SeqsUpTo(S, n - 1)
       IN shorter \cup {Append(s, c) : s \in shorter, c \in S}

AllIn(s, S) == \A i \in 1..Len(s) : s[i] \in S

RECURSIVE Filter(_, _)
Filter(s, bad) ==
  IF s = <<>> THEN <<>>
  ELSE IF Head(s) \in bad THEN Filter(Tail(s), bad)
       ELSE <<Head(s)>> \o Filter(Tail(s), bad)

(***************************************************************************)
(* 4.1 Content decoder                                                     *)
(***************************************************************************)
HexChars ==
  <<"0","1","2","3","4","5","6","7","8","9","a","b","c","d","e","f",
    "A","B","C","D","E","F">>

HexDigits == {HexChars[i] : i \in 1..Len(HexChars)}

HexVal(c) ==
  LET i == CHOOSE j \in 1..Len(HexChars) : HexChars[j] = c
  IN IF i <= 16 THEN i - 1 ELSE i - 7

B64Chars ==
  <<"A","B","C","D","E","F","G","H","I","J","K","L","M","N","O","P",
    "Q","R","S","T","U","V","W","X","Y","Z","a","b","c","d","e","f",
    "g","h","i","j","k","l","m","n","o","p","q","r","s","t","u","v",
    "w","x","y","z","0","1","2","3","4","5","6","7","8","9","+","/">>

B64Digits == {B64Chars[i] : i \in 1..Len(B64Chars)}

B64Val(c) == (CHOOSE j \in 1..Len(B64Chars) : B64Chars[j] = c) - 1

\* looksLikeHex: even length and /^[0-9a-fA-F]+$/
looksLikeHex(s) ==
  IF Len(s) % 2 # 0 THEN FALSE
  ELSE Len(s) > 0 /\ AllIn(s, HexDigits)

\* looksLikeBase64: length a multiple of 4 and /^[A-Za-z0-9+/=]+$/
looksLikeBase64(s) ==
  IF Len(s) % 4 # 0 THEN FALSE
  ELSE Len(s) > 0 /\ AllIn(s, B64Digits \cup {"="})

\* Buffer.from(s, 'hex') on a string that looksLikeHex: one byte per pair.
RECURSIVE BufferFromHex(_)
BufferFromHex(s) ==
  IF Len(s) < 2 THEN <<>>
  ELSE <<16 * HexVal(s[1]) + HexVal(s[2])>> \o BufferFromHex(SubSeq(s, 3, Len(s)))

\* The characters before the first '=' (the decoder stops at the padding).
RECURSIVE UpToPad(_)
UpToPad(s) ==
  IF s = <<>> \/ Head(s) = "=" THEN <<>>
  ELSE <<Head(s)>> \o UpToPad(Tail(s))

\* Buffer.from(s, 'base64') on a string that looksLikeBase64: four digits
\* give three bytes, a tail of three gives two, of two gives one, of one none.
RECURSIVE B64Groups(_)
B64Groups(d) ==
  IF Len(d) >= 4 THEN
    LET a == B64Val(d[1]) b == B64Val(d[2]) c == B64Val(d[3]) e == B64Val(d[4])
    IN <<4 * a + b \div 16, 16 * (b % 16) + c \div 4, 64 * (c % 4) + e>>
       \o B64Groups(SubSeq(d, 5, Len(d)))
  ELSE IF Len(d) = 3 THEN
    LET a == B64Val(d[1]) b == B64Val(d[2]) c == B64Val(d[3])
    IN <<4 * a + b \div 16, 16 * (b % 16) + c \div 4>>
  ELSE IF Len(d) = 2 THEN
    LET a == B64Val(d[1]) b == B64Val(d[2])
    IN <<4 * a + b \div 16>>
  ELSE <<>>

BufferFromBase64(s) == B64Groups(UpToPad(s))

\* U+FFFD, the marker a UTF-8 decode leaves for an invalid sequence.
ReplacementChar == 65533

IsCont(b) == b >= 128 /\ b <= 191

\* Buffer.toString('utf-8'): the code points of the decode, an ill-formed
\* sequence replaced by one U+FFFD per maximal subpart.
RECURSIVE Utf8Decode(_)
Utf8Decode(bs) ==
  IF bs = <<>> THEN <<>>
  ELSE
    LET b == bs[1]
        n == Len(bs)
        rest(k) == Utf8Decode(SubSeq(bs, k + 1, n))
        lo2 == IF b = 224 THEN 160 ELSE IF b = 240 THEN 144 ELSE 128
        hi2 == IF b = 237 THEN 159 ELSE IF b = 244 THEN 143 ELSE 191
        ok2 == n >= 2 /\ bs[2] >= lo2 /\ bs[2] <= hi2
        ok3 == n >= 3 /\ IsCont(bs[3])
        ok4 == n >= 4 /\ IsCont(bs[4])
    IN IF b < 128 THEN <<b>> \o rest(1)
       ELSE IF b >= 194 /\ b <= 223 THEN
         IF ok2 THEN <<64 * (b - 192) + (bs[2] - 128)>> \o rest(2)
         ELSE <<ReplacementChar>> \o rest(1)
       ELSE IF b >= 224 /\ b <= 239 THEN
         IF ~ok2 THEN <<ReplacementChar>> \o rest(1)
         ELSE IF ~ok3 THEN <<ReplacementChar>> \o rest(2)
         ELSE <<4096 * (b - 224) + 64 * (bs[2] - 128) + (bs[3] - 128)>> \o rest(3)
       ELSE IF b >= 240 /\ b <= 244 THEN
         IF ~ok2 THEN <<ReplacementChar>> \o rest(1)
         ELSE IF ~ok3 THEN <<ReplacementChar>> \o rest(2)
         ELSE IF ~ok4 THEN <<ReplacementChar>> \o rest(3)
         ELSE <<262144 * (b - 240) + 4096 * (bs[2] - 128)
                  + 64 * (bs[3] - 128) + (bs[4] - 128)>> \o rest(4)
       ELSE <<ReplacementChar>> \o rest(1)

\* String.length counts UTF-16 units: two for a code point above U+FFFF.
RECURSIVE JsLength(_)
JsLength(cps) ==
  IF cps = <<>> THEN 0
  ELSE (IF Head(cps) > 65535 THEN 2 ELSE 1) + JsLength(Tail(cps))

CountOf(cps, c) == Cardinality({i \in 1..Len(cps) : cps[i] = c})

\* A decoded character as text: the printable ASCII the samples use, and
\* otherwise its code point.
CharOfCode(cp) ==
  IF cp = 65 THEN "A" ELSE IF cp = 97 THEN "a" ELSE IF cp = 60 THEN "<"
  ELSE IF cp = 62 THEN ">" ELSE IF cp = 32 THEN " "
  ELSE "U+" \o ToString(cp)

TextOfCodes(cps) == [i \in 1..Len(cps) |-> CharOfCode(cps[i])]

\* The four bytes of the little-endian word 0xFD2FB528.
ZstdMagicLE == <<40, 181, 47, 253>>

\* The body of decodeBinaryContent's try block. zstd is what fzstd.decompress
\* does with this payload: [ok, text].
decodeBinaryTry(data, zstd) ==
  IF Len(data) >= 4 /\ SubSeq(data, 1, 4) = ZstdMagicLE
  THEN IF zstd.ok THEN Ret(zstd.text) ELSE Throw
  ELSE LET decoded == Utf8Decode(data)
           replacementCount == CountOf(decoded, ReplacementChar)
       IN IF 5 * replacementCount < JsLength(decoded)
          THEN Ret(TextOfCodes(Filter(decoded, {ReplacementChar})))
          ELSE Ret(TextOfCodes(data))

decodeBinaryContent_NoCatch(data, zstd) ==
  IF Len(data) = 0 THEN Ret(<<>>) ELSE decodeBinaryTry(data, zstd)

decodeBinaryContent(data, zstd) ==
  IF Len(data) = 0 THEN Ret(<<>>)
  ELSE LET r == decodeBinaryTry(data, zstd)
       IN IF r.ex THEN Ret(<<>>) ELSE r

\* A raw column value: [kind, s] with kind "null" (null, undefined),
\* "string" (s its characters) or "buffer" (a truthy non-string).
NullRaw == [kind |-> "null", s |-> <<>>]

StringRaw(s) == [kind |-> "string", s |-> s]

BufferRaw == [kind |-> "buffer", s |-> <<>>]

decodeMaybeCompressed(raw, zstd) ==
  IF raw.kind = "null" THEN Ret(<<>>)
  ELSE IF raw.kind = "string" THEN
    IF Len(raw.s) = 0 THEN Ret(<<>>)
    ELSE IF looksLikeHex(raw.s) /\ Len(BufferFromHex(raw.s)) > 0
      THEN decodeBinaryContent(BufferFromHex(raw.s), zstd)
    ELSE IF looksLikeBase64(raw.s) THEN
      LET r == decodeBinaryContent(BufferFromBase64(raw.s), zstd)
      IN IF r.ex THEN Ret(raw.s) ELSE r
    ELSE Ret(raw.s)
  ELSE Ret(<<>>)

decodeMessageContent(messageContent, compressContent, zstd) ==
  LET content == decodeMaybeCompressed(compressContent, zstd)
  IN IF content.ex THEN content
     ELSE IF Len(content.v) = 0 THEN decodeMaybeCompressed(messageContent, zstd)
     ELSE content

(***************************************************************************)
(* 4.2 Message content parser                                              *)
(*                                                                         *)
(* A Chinese character of a literal is written as its pinyin syllable, one *)
(* element per character, so that substring tests keep their meaning; a    *)
(* bracketed label of the code is one element, named in English.           *)
(***************************************************************************)
RECURSIVE Join(_)
Join(s) == IF s = <<>> THEN "" ELSE Head(s) \o Join(Tail(s))

StartsWithAt(s, i, p) ==
  /\ i + Len(p) - 1 <= Len(s)
  /\ SubSeq(s, i, i + Len(p) - 1) = p

\* String.prototype.includes
Includes(s, p) == \E i \in 1..(Len(s) + 1) : StartsWithAt(s, i, p)

Min(S) == CHOOSE x \in S : \A y \in S : x <= y

NoMatch == [found |-> FALSE, cap |-> <<>>]

\* The first match of  pre (C*?) post  in s, where the class C is every
\* element outside excl: the leftmost start, and for it the nearest post.
FirstMatch(s, pre, post, excl) ==
  LET ends(i) == {j \in (i + Len(pre))..(Len(s) + 1) :
                    /\ StartsWithAt(s, j, post)
                    /\ \A k \in (i + Len(pre))..(j - 1) : s[k] \notin excl}
      starts == {i \in 1..Len(s) : StartsWithAt(s, i, pre) /\ ends(i) # {}}
  IN IF starts = {} THEN NoMatch
     ELSE LET i == Min(starts)
              j == Min(ends(i))
          IN [found |-> TRUE, cap |-> SubSeq(s, i + Len(pre), j - 1)]

Whitespace == {" ", "\n"}

\* The class . of a regular expression without the s flag.
NotDot == {"\n"}

RECURSIVE TrimStart(_)
TrimStart(s) ==
  IF s # <<>> /\ Head(s) \in Whitespace THEN TrimStart(Tail(s)) ELSE s

RECURSIVE TrimEnd(_)
TrimEnd(s) ==
  IF s # <<>> /\ s[Len(s)] \in Whitespace
  THEN TrimEnd(SubSeq(s, 1, Len(s) - 1)) ELSE s

\* String.prototype.trim
Trim(s) == TrimEnd(TrimStart(s))

Digits == {"0", "1", "2", "3", "4", "5", "6", "7", "8", "9"}

\* [a-zA-Z0-9_-]
WordChars == Digits \cup {"a", "u", "w", "x", "i", "d", "_", "-", "A"}

RECURSIVE RunLength(_, _)
RunLength(s, S) ==
  IF s # <<>> /\ Head(s) \in S THEN 1 + RunLength(Tail(s), S) ELSE 0

RECURSIVE RunLengthNot(_, _)
RunLengthNot(s, S) ==
  IF s # <<>> /\ Head(s) \notin S THEN 1 + RunLengthNot(Tail(s), S) ELSE 0

\* The first match of  open (\d+) close  in s.
DigitsBetween(s, open, close) ==
  LET run(i) == RunLength(SubSeq(s, i + 1, Len(s)), Digits)
      starts == {i \in 1..Len(s) :
                   /\ s[i] = open
                   /\ run(i) >= 1
                   /\ StartsWithAt(s, i + run(i) + 1, <<close>>)}
  IN IF starts = {} THEN NoMatch
     ELSE LET i == Min(starts)
          IN [found |-> TRUE, cap |-> SubSeq(s, i + 1, i + run(i))]

\* content.replace(/^[\s]*([a-zA-Z0-9_-]+):(?!\/\/)/, '')
stripSenderPrefix(content) ==
  LET ws == RunLength(content, Whitespace)
      afterWs == SubSeq(content, ws + 1, Len(content))
      w == RunLength(afterWs, WordChars)
      colon == ws + w + 1
  IN IF /\ w >= 1
        /\ colon <= Len(content)
        /\ content[colon] = ":"
        /\ ~StartsWithAt(content, colon + 1, <<"/", "/">>)
     THEN SubSeq(content, colon + 1, Len(content))
     ELSE content

CData == {"<![CDATA[", "]]>"}

OpenTag(name) == "<" \o name \o ">"

CloseTag(name) == "</" \o name \o ">"

extractXmlValue(xml, tagName) ==
  LET match == FirstMatch(xml, <<OpenTag(tagName)>>, <<CloseTag(tagName)>>, {})
  IN IF match.found THEN Trim(Filter(match.cap, CData)) ELSE <<>>

\* The elements that are a whole tag <name ...> or </name ...>.
TagNames ==
  {"title", "type", "sysmsg", "replacemsg", "template", "msg", "room_type",
   "img", "u", "appmsg", "msgsource"}

Tags == {OpenTag(n) : n \in TagNames} \cup {CloseTag(n) : n \in TagNames}

EndsAngle == Tags \cup {"]]>"}

\* s.replace(/<[^>]+>/g, ''): a whole tag goes; an opening CDATA bracket
\* goes with everything up to the next '>'.
RECURSIVE StripAngle(_)
StripAngle(s) ==
  IF s = <<>> THEN <<>>
  ELSE IF Head(s) \in Tags THEN StripAngle(Tail(s))
  ELSE IF Head(s) = "<![CDATA[" THEN
    LET closes == {j \in 2..Len(s) : s[j] \in EndsAngle}
    IN IF closes = {} THEN <<Head(s)>> \o StripAngle(Tail(s))
       ELSE StripAngle(SubSeq(s, Min(closes) + 1, Len(s)))
  ELSE <<Head(s)>> \o StripAngle(Tail(s))

\* s.replace(/\s+/g, ' ')
RECURSIVE CollapseSpace(_)
CollapseSpace(s) ==
  IF s = <<>> THEN <<>>
  ELSE IF Head(s) \in Whitespace
       THEN <<" ">> \o CollapseSpace(SubSeq(s, RunLength(s, Whitespace) + 1, Len(s)))
       ELSE <<Head(s)>> \o CollapseSpace(Tail(s))

\* The characters that make  new RegExp('<' + varName + '>...')  a syntax
\* error when they stand alone in varName.
RegexBreaking == {"(", ")", "[", "*", "+", "?", "\\"}

\* Whether new RegExp(...) built from varName compiles.
RegexCompiles(varName) == \A i \in 1..Len(varName) : varName[i] \notin RegexBreaking

\* The callback of the template replace: the CDATA value of the sibling
\* element named varName, or ''. Throws when the pattern does not compile.
patVariable(varName, content) ==
  IF ~RegexCompiles(varName) THEN Throw
  ELSE LET varMatch == FirstMatch(content,
                         <<OpenTag(Join(varName)), "<![CDATA[">>,
                         <<"]]>", CloseTag(Join(varName))>>, {"]]>"})
       IN Ret(IF varMatch.found THEN varMatch.cap ELSE <<>>)

\* template.replace(/\$\{([^}]+)\}/g, callback)
RECURSIVE replaceTemplateVars(_, _)
replaceTemplateVars(template, content) ==
  IF template = <<>> THEN Ret(<<>>)
  ELSE
    LET closes == {k \in 2..Len(template) : template[k] = "}"}
        k == IF closes = {} THEN 0 ELSE Min(closes)
    IN IF Head(template) = "${" /\ k > 2 THEN
         LET value == patVariable(SubSeq(template, 2, k - 1), content)
             rest == replaceTemplateVars(SubSeq(template, k + 1, Len(template)), content)
         IN IF value.ex \/ rest.ex THEN Throw ELSE Ret(value.v \o rest.v)
       ELSE
         LET rest == replaceTemplateVars(Tail(template), content)
         IN IF rest.ex THEN Throw ELSE Ret(<<Head(template)>> \o rest.v)

LabelSystem == <<"[SystemMessage]">>

OrElse(s, fallback) == IF s = <<>> THEN fallback ELSE s

cleanSystemMessage(content0) ==
  IF content0 = <<>> THEN Ret(LabelSystem)
  ELSE
    LET sysmsgTextMatch == FirstMatch(content0, <<"<sysmsg>">>, <<"</sysmsg>">>, {})
        content == IF sysmsgTextMatch.found THEN sysmsgTextMatch.cap ELSE content0
        revokeMatch == FirstMatch(content, <<"<replacemsg>", "<![CDATA[">>,
                                  <<"]]>", "</replacemsg>">>, NotDot)
        patMatch == FirstMatch(content, <<"<template>", "<![CDATA[">>,
                               <<"]]>", "</template>">>, NotDot)
    IN IF revokeMatch.found THEN Ret(Trim(revokeMatch.cap))
       ELSE IF patMatch.found THEN
         LET replaced == replaceTemplateVars(patMatch.cap, content)
         IN IF replaced.ex THEN Throw ELSE Ret(Trim(StripAngle(replaced.v)))
       ELSE Ret(OrElse(Trim(CollapseSpace(Filter(Filter(content, CData), Tags))),
                       LabelSystem))

\* The status phrases of a call message.
PhraseDuration == <<"tong", "hua", "shi", "chang">>

PhraseNoAnswer == <<"dui", "fang", "wu", "ying", "da">>

PhraseCancelled == <<"yi", "qu", "xiao">>

PhraseOtherDeviceA == <<"yi", "zai", "qi", "ta_it", "she", "bei", "jie", "ting">>

PhraseOtherDeviceB == <<"yi", "zai", "qi", "ta_he", "she", "bei", "jie", "ting">>

PhrasePeerDeclined == <<"dui", "fang", "yi", "ju", "jue">>

PhraseDeclined == <<"yi", "ju", "jue">>

PhraseBusyMissed == <<"mang", "xian", "wei", "jie", "ting">>

PhraseBusy == <<"mang", "xian">>

PhraseMissed == <<"wei", "jie", "ting">>

PhraseAnswered == <<"yi", "jie", "ting">>

\* parseInt(digits, 10) = n, for a non-empty run of digits
DigitsAre(ds, d) ==
  /\ ds # <<>>
  /\ ds[Len(ds)] = d
  /\ \A i \in 1..(Len(ds) - 1) : ds[i] = "0"

\* /tong hua shi chang\s*(\d{1,2}:\d{2}(?::\d{2})?)/ : the duration, or ''
durationOf(msg) ==
  LET shape(i) ==
        LET p == i + Len(PhraseDuration)
            afterWs == p + RunLength(SubSeq(msg, p, Len(msg)), Whitespace)
            \* the regular expression backtracks over \s* only to whitespace,
            \* which is no digit: the digits start right after the run
            d == RunLength(SubSeq(msg, afterWs, Len(msg)), Digits)
            heads == {h \in {1, 2} : /\ h <= d
                                     /\ afterWs + h <= Len(msg)
                                     /\ msg[afterWs + h] = ":"
                                     /\ RunLength(SubSeq(msg, afterWs + h + 1, Len(msg)), Digits) >= 2}
        IN [ok |-> StartsWithAt(msg, i, PhraseDuration) /\ heads # {},
            from |-> afterWs,
            h |-> IF heads = {} THEN 0 ELSE CHOOSE h \in heads : \A g \in heads : g <= h]
      starts == {i \in 1..Len(msg) : shape(i).ok}
  IN IF starts = {} THEN <<>>
     ELSE LET m == shape(Min(starts))
              mmEnd == m.from + m.h + 2
              secs == /\ mmEnd + 1 <= Len(msg)
                      /\ msg[mmEnd + 1] = ":"
                      /\ RunLength(SubSeq(msg, mmEnd + 2, Len(msg)), Digits) >= 2
          IN SubSeq(msg, m.from, IF secs THEN mmEnd + 3 ELSE mmEnd)

LabelCall == <<"[Call]">>

\* A parseVoipMessage that looks for the missed call before the busy line.
parseVoipMessage_MissedFirst(content) ==
  IF content = <<>> THEN Ret(LabelCall)
  ELSE
    LET msgMatch == FirstMatch(content, <<"<msg>", "<![CDATA[">>, <<"]]>", "</msg>">>, NotDot)
        msg == IF msgMatch.found THEN Trim(msgMatch.cap) ELSE <<>>
        roomTypeMatch == DigitsBetween(content, "<room_type>", "</room_type>")
        roomDigits == IF roomTypeMatch.found THEN roomTypeMatch.cap ELSE <<>>
        callType == IF DigitsAre(roomDigits, "0") THEN "VideoCall"
                    ELSE IF DigitsAre(roomDigits, "1") THEN "VoiceCall"
                    ELSE "Call"
        label == <<"[" \o callType \o "]">>
        with(status) == Ret(label \o <<" ">> \o status)
    IN IF Includes(msg, PhraseDuration) THEN
         IF durationOf(msg) # <<>> THEN with(durationOf(msg)) ELSE with(PhraseAnswered)
       ELSE IF Includes(msg, PhraseNoAnswer) THEN with(PhraseNoAnswer)
       ELSE IF Includes(msg, PhraseCancelled) THEN with(PhraseCancelled)
       ELSE IF Includes(msg, PhraseOtherDeviceA) \/ Includes(msg, PhraseOtherDeviceB)
         THEN with(PhraseOtherDeviceB)
       ELSE IF Includes(msg, PhrasePeerDeclined) \/ Includes(msg, PhraseDeclined)
         THEN with(PhrasePeerDeclined)
       ELSE IF Includes(msg, PhraseMissed) THEN with(PhraseMissed)
       ELSE IF Includes(msg, PhraseBusyMissed) \/ Includes(msg, PhraseBusy)
         THEN with(PhraseBusyMissed)
       ELSE IF msg # <<>> THEN with(msg)
       ELSE Ret(label)

parseVoipMessage(content) ==
  IF content = <<>> THEN Ret(LabelCall)
  ELSE
    LET msgMatch == FirstMatch(content, <<"<msg>", "<![CDATA[">>, <<"]]>", "</msg>">>, NotDot)
        msg == IF msgMatch.found THEN Trim(msgMatch.cap) ELSE <<>>
        roomTypeMatch == DigitsBetween(content, "<room_type>", "</room_type>")
        roomDigits == IF roomTypeMatch.found THEN roomTypeMatch.cap ELSE <<>>
        callType == IF DigitsAre(roomDigits, "0") THEN "VideoCall"
                    ELSE IF DigitsAre(roomDigits, "1") THEN "VoiceCall"
                    ELSE "Call"
        label == <<"[" \o callType \o "]">>
        with(status) == Ret(label \o <<" ">> \o status)
    IN IF Includes(msg, PhraseDuration) THEN
         IF durationOf(msg) # <<>> THEN with(durationOf(msg)) ELSE with(PhraseAnswered)
       ELSE IF Includes(msg, PhraseNoAnswer) THEN with(PhraseNoAnswer)
       ELSE IF Includes(msg, PhraseCancelled) THEN with(PhraseCancelled)
       ELSE IF Includes(msg, PhraseOtherDeviceA) \/ Includes(msg, PhraseOtherDeviceB)
         THEN with(PhraseOtherDeviceB)
       ELSE IF Includes(msg, PhrasePeerDeclined) \/ Includes(msg, PhraseDeclined)
         THEN with(PhrasePeerDeclined)
       ELSE IF Includes(msg, PhraseBusyMissed) \/ Includes(msg, PhraseBusy)
         THEN with(PhraseBusyMissed)
       ELSE IF Includes(msg, PhraseMissed) THEN with(PhraseMissed)
       ELSE IF msg # <<>> THEN with(msg)
       ELSE Ret(label)

\* A result of parseMessageContent: null, or a string.
Null == [ex |-> FALSE, null |-> TRUE, v |-> <<>>]

Str(s) == [ex |-> FALSE, null |-> FALSE, v |-> s]

Thrown == [ex |-> TRUE, null |-> FALSE, v |-> <<>>]

StrOf(r) == IF r.ex THEN Thrown ELSE Str(r.v)

PatLocalType == "266287972401"

\* The labels of the types whose summary is a constant.
FixedLabel(localType) ==
  IF localType = "3" THEN <<"[Image]">>
  ELSE IF localType = "34" THEN <<"[VoiceMessage]">>
  ELSE IF localType = "42" THEN <<"[Card]">>
  ELSE IF localType = "43" THEN <<"[Video]">>
  ELSE IF localType = "47" THEN <<"[Emoji]">>
  ELSE <<"[Location]">>

LabelLink == <<"[Link]">>

LabelQuote == <<"[QuotedMessage]">>

QuoteMarker == <<"<type>", "5", "7", "</type>">>

parseMessageContent(content, localType) ==
  IF content = <<>> THEN Null
  ELSE IF localType = "1" THEN Str(stripSenderPrefix(content))
  ELSE IF localType \in {"3", "34", "42", "43", "47", "48"} THEN Str(FixedLabel(localType))
  ELSE IF localType = "49" THEN Str(OrElse(extractXmlValue(content, "title"), LabelLink))
  ELSE IF localType = "50" THEN StrOf(parseVoipMessage(content))
  ELSE IF localType = "10000" THEN StrOf(cleanSystemMessage(content))
  ELSE IF localType = PatLocalType THEN StrOf(cleanSystemMessage(content))
  ELSE IF Includes(content, QuoteMarker)
    THEN Str(OrElse(extractXmlValue(content, "title"), LabelQuote))
  ELSE IF stripSenderPrefix(content) = <<>> THEN Null
  ELSE Str(stripSenderPrefix(content))

RECURSIVE StripZeros(_)
StripZeros(ds) ==
  IF Len(ds) > 1 /\ Head(ds) = "0" THEN StripZeros(Tail(ds)) ELSE ds

\* MESSAGE_TYPE_MAP[localType] ?? 99
MessageTypeMap(localType) ==
  IF localType = "1" THEN 0
  ELSE IF localType = "3" THEN 1
  ELSE IF localType = "34" THEN 2
  ELSE IF localType = "43" THEN 3
  ELSE IF localType = "49" THEN 7
  ELSE IF localType = "47" THEN 5
  ELSE IF localType = "48" THEN 8
  ELSE IF localType = "42" THEN 27
  ELSE IF localType = "50" THEN 23
  ELSE IF localType = "10000" THEN 80
  ELSE 99

\* A convertMessageType that knows no quoted reply.
convertMessageType_NoReply(localType, content) ==
  LET typeMatch == DigitsBetween(content, "<type>", "</type>")
      subType == StripZeros(typeMatch.cap)
  IN IF localType = "49" /\ typeMatch.found THEN
       IF subType = <<"6">> THEN 4
       ELSE IF subType \in {<<"3", "3">>, <<"3", "6">>} THEN 24
       ELSE 7
     ELSE MessageTypeMap(localType)

convertMessageType(localType, content) ==
  LET typeMatch == DigitsBetween(content, "<type>", "</type>")
      subType == StripZeros(typeMatch.cap)
  IN IF localType = "49" /\ typeMatch.found THEN
       IF subType = <<"6">> THEN 4
       ELSE IF subType \in {<<"3", "3">>, <<"3", "6">>} THEN 24
       ELSE IF subType = <<"5", "7">> THEN 25
       ELSE 7
     ELSE MessageTypeMap(localType)

(***************************************************************************)
(* 4.3 Identity resolver                                                   *)
(*                                                                         *)
(* An identifier or a name is text; the empty text stands for a value that *)
(* is absent (undefined, null or ''), which the code tests the same way.   *)
(* A Map is the sequence of its entries in insertion order.                *)
(***************************************************************************)
\* [a-zA-Z0-9]
AlphaNum == WordChars \ {"_", "-"}

WxidPrefix == <<"w", "x", "i", "d", "_">>

cleanAccountDirName(dirName) ==
  LET trimmed == Trim(dirName)
      n == Len(trimmed)
      afterPrefix == SubSeq(trimmed, Len(WxidPrefix) + 1, n)
      firstSegment == RunLengthNot(afterPrefix, {"_"})
      hasSuffix == /\ n >= 6
                   /\ trimmed[n - 4] = "_"
                   /\ \A i \in (n - 3)..n : trimmed[i] \in AlphaNum
                   /\ \A i \in 1..(n - 5) : trimmed[i] \notin NotDot
  IN IF trimmed = <<>> THEN trimmed
     ELSE IF StartsWithAt(trimmed, 1, WxidPrefix) THEN
       IF firstSegment >= 1 THEN SubSeq(trimmed, 1, Len(WxidPrefix) + firstSegment)
       ELSE trimmed
     ELSE IF hasSuffix THEN SubSeq(trimmed, 1, n - 5)
     ELSE trimmed

MapHas(m, key) == \E i \in 1..Len(m) : m[i].key = key

MapIndex(m, key) == CHOOSE i \in 1..Len(m) : m[i].key = key

MapGet(m, key) == m[MapIndex(m, key)]

\* Map.set: an existing key keeps its place, a new one goes to the end.
MapSet(m, entry) ==
  IF MapHas(m, entry.key) THEN [m EXCEPT ![MapIndex(m, entry.key)] = entry]
  ELSE Append(m, entry)

MapKeys(m) == {m[i].key : i \in 1..Len(m)}

\* a || b
Or(a, b) == IF a # <<>> THEN a ELSE b

\* A lookup result {success, map}: map[id], or '' when the id is not in it.
MapAt(map, id) == IF id \in DOMAIN map THEN map[id] ELSE <<>>

backfillAccountName_Always(existing, displayName) ==
  IF displayName # <<>> /\ displayName # existing.platformId
  THEN [existing EXCEPT !.accountName = displayName]
  ELSE existing

\* The name of a member already in the map is replaced only while it is
\* still the raw identifier.
backfillAccountName(existing, displayName) ==
  IF /\ displayName # <<>>
     /\ existing.accountName = existing.platformId
     /\ displayName # existing.platformId
  THEN [existing EXCEPT !.accountName = displayName]
  ELSE existing

\* A roster loop body that takes the nickname of the roster whenever it has one.
mergeOneMember_Overwrites(memberSet, member, displayNames, avatarUrls, includeAvatars) ==
  LET username == member.username
      cleaned == cleanAccountDirName(username)
      displayName ==
        IF displayNames.success
        THEN Or(Or(MapAt(displayNames.map, username),
                   IF cleaned # <<>> THEN MapAt(displayNames.map, cleaned) ELSE <<>>),
                username)
        ELSE username
      groupNickname ==
        Or(Or(Or(member.nickname, member.displayName), member.remark), member.originalName)
      avatarUrl ==
        IF includeAvatars /\ avatarUrls.success
        THEN Or(Or(MapAt(avatarUrls.map, username),
                   IF cleaned # <<>> THEN MapAt(avatarUrls.map, cleaned) ELSE <<>>),
                member.avatarUrl)
        ELSE member.avatarUrl
  IN IF username = <<>> THEN memberSet
     ELSE IF MapHas(memberSet, username) THEN
       LET existing == MapGet(memberSet, username)
           named == backfillAccountName(existing, displayName)
           nicked == IF groupNickname # <<>>
                     THEN [named EXCEPT !.groupNickname = groupNickname]
                     ELSE named
           pictured == IF nicked.avatarUrl = <<>> /\ avatarUrl # <<>>
                       THEN [nicked EXCEPT !.avatarUrl = avatarUrl]
                       ELSE nicked
       IN MapSet(memberSet, pictured)
     ELSE MapSet(memberSet, [key |-> username, platformId |-> username,
                             accountName |-> displayName,
                             groupNickname |-> groupNickname,
                             avatarUrl |-> avatarUrl])

\* The body of the roster loop of mergeGroupMembers for one roster member.
mergeOneMember(memberSet, member, displayNames, avatarUrls, includeAvatars) ==
  LET username == member.username
      cleaned == cleanAccountDirName(username)
      displayName ==
        IF displayNames.success
        THEN Or(Or(MapAt(displayNames.map, username),
                   IF cleaned # <<>> THEN MapAt(displayNames.map, cleaned) ELSE <<>>),
                username)
        ELSE username
      groupNickname ==
        Or(Or(Or(member.nickname, member.displayName), member.remark), member.originalName)
      avatarUrl ==
        IF includeAvatars /\ avatarUrls.success
        THEN Or(Or(MapAt(avatarUrls.map, username),
                   IF cleaned # <<>> THEN MapAt(avatarUrls.map, cleaned) ELSE <<>>),
                member.avatarUrl)
        ELSE member.avatarUrl
  IN IF username = <<>> THEN memberSet
     ELSE IF MapHas(memberSet, username) THEN
       LET existing == MapGet(memberSet, username)
           named == backfillAccountName(existing, displayName)
           nicked == IF groupNickname # <<>> /\ named.groupNickname = <<>>
                     THEN [named EXCEPT !.groupNickname = groupNickname]
                     ELSE named
           pictured == IF nicked.avatarUrl = <<>> /\ avatarUrl # <<>>
                       THEN [nicked EXCEPT !.avatarUrl = avatarUrl]
                       ELSE nicked
       IN MapSet(memberSet, pictured)
     ELSE MapSet(memberSet, [key |-> username, platformId |-> username,
                             accountName |-> displayName,
                             groupNickname |-> groupNickname,
                             avatarUrl |-> avatarUrl])

RECURSIVE mergeRoster(_, _, _, _, _)
mergeRoster(memberSet, rawMembers, displayNames, avatarUrls, includeAvatars) ==
  IF rawMembers = <<>> THEN memberSet
  ELSE mergeRoster(
         mergeOneMember(memberSet, Head(rawMembers), displayNames, avatarUrls, includeAvatars),
         Tail(rawMembers), displayNames, avatarUrls, includeAvatars)

\* The identifiers mergeGroupMembers looks up: each username and its
\* cleaned form.
lookupUsernames(rawMembers) ==
  LET usernames == {rawMembers[i].username : i \in 1..Len(rawMembers)} \ {<<>>}
  IN (usernames \cup {cleanAccountDirName(u) : u \in usernames}) \ {<<>>}

Restrict(f, S) == [x \in S \cap DOMAIN f |-> f[x]]

\* mergeGroupMembers. roster is what getGroupMembers answers: [st, members];
\* names and avatars are what getDisplayNames and getAvatarUrls answer for a
\* list of identifiers: [st, map]. st is "ok", "fail" (success = false) or
\* "throw" (the promise rejects). The result is [ex, v], v the member map.
mergeGroupMembers(memberSet, includeAvatars, roster, names, avatars) ==
  IF roster.st = "throw" THEN Throw
  ELSE IF roster.st # "ok" \/ roster.members = <<>> THEN Ret(memberSet)
  ELSE IF lookupUsernames(roster.members) = {} THEN Ret(memberSet)
  ELSE IF names.st = "throw" \/ (includeAvatars /\ avatars.st = "throw") THEN Throw
  ELSE
    LET asked == lookupUsernames(roster.members)
        displayNames == [success |-> names.st = "ok", map |-> Restrict(names.map, asked)]
        avatarUrls == IF includeAvatars
                      THEN [success |-> avatars.st = "ok", map |-> Restrict(avatars.map, asked)]
                      ELSE [success |-> TRUE, map |-> <<>>]
    IN Ret(mergeRoster(memberSet, roster.members, displayNames, avatarUrls, includeAvatars))

(***************************************************************************)
(* File system                                                             *)
(*                                                                         *)
(* A path is the sequence of its segments and a segment is text. The disk  *)
(* is [files, dirs, writes]: files maps the path of each file to its data, *)
(* dirs is the set of directories, and writes lists, in order, the paths   *)
(* that writeFileSync, copyFileSync and createWriteStream have written.    *)
(***************************************************************************)
NoFiles == <<>>

EmptyDisk == [files |-> NoFiles, dirs |-> {}, writes |-> <<>>]

existsSync(fs, p) == p \in DOMAIN fs.files \/ p \in fs.dirs

\* path.dirname
dirname(p) == SubSeq(p, 1, Len(p) - 1)

\* fs.mkdirSync(p, { recursive: true })
mkdirSync(fs, p) == [fs EXCEPT !.dirs = @ \cup {SubSeq(p, 1, k) : k \in 1..Len(p)}]

\* fs.writeFileSync, fs.copyFileSync and a write stream all replace the file.
writeFileSync(fs, p, data) ==
  [fs EXCEPT !.files = (p :> data) @@ @, !.writes = Append(@, p)]

(***************************************************************************)
(* 4.4 Media extractor                                                     *)
(*                                                                         *)
(* env holds what the collaborators answer during one call:                *)
(*   decrypt, thumb  [st, localPath]  imageDecryptService.decryptImage and *)
(*                                    resolveCachedImage                   *)
(*   cacheFiles      the source files that exist                           *)
(*   voice           [st, data]       chatService.getVoiceData             *)
(*   http            the responses of the emoji host, one per request      *)
(*   disk            "ok", or "throw" when creating or writing fails       *)
(* st is "ok", "fail" (success = false) or "throw".                        *)
(***************************************************************************)
NullItem == [kind |-> "null", relativePath |-> <<>>]

MediaItem(kind, dir, fileName) ==
  [kind |-> kind, relativePath |-> <<"media/", dir, "/">> \o fileName]

\* String(n) for a number
String(n) == <<ToString(n)>>

Extensions == {".png", ".gif", ".webp", ".jpg", ".jpeg", ".wav"}

\* path.extname of a source path whose last element is its extension
extname(p) == IF Len(p) >= 2 /\ p[Len(p)] \in Extensions THEN <<p[Len(p)]>> ELSE <<>>

getExtFromDataUrl(dataUrl) ==
  IF Includes(dataUrl, <<"image/png">>) THEN <<".png">>
  ELSE IF Includes(dataUrl, <<"image/gif">>) THEN <<".gif">>
  ELSE IF Includes(dataUrl, <<"image/webp">>) THEN <<".webp">>
  ELSE <<".jpg">>

\* dataUrl.split(',')[1]
afterComma(dataUrl) ==
  LET commas == {i \in 1..Len(dataUrl) : dataUrl[i] = ","}
      first == Min(commas)
      later == {i \in commas : i > first}
      last == IF later = {} THEN Len(dataUrl) ELSE Min(later) - 1
  IN IF commas = {} THEN <<>> ELSE SubSeq(dataUrl, first + 1, last)

mediaResult(fs, v) == [fs |-> fs, v |-> v]

exportImage(fs, msg, sessionId, mediaDir, env) ==
  LET imagesDir == mediaDir \o << <<"media">>, <<"images">> >>
      missingDir == ~existsSync(fs, imagesDir)
      made == IF missingDir THEN mkdirSync(fs, imagesDir) ELSE fs
      useThumb == env.decrypt.st # "ok" \/ env.decrypt.localPath = <<>>
      localPath == IF useThumb THEN env.thumb.localPath ELSE env.decrypt.localPath
      name == Or(Or(msg.imageMd5, msg.imageDatName), String(msg.localId))
      sourcePath == IF StartsWithAt(localPath, 1, <<"file://">>) THEN Tail(localPath)
                    ELSE localPath
  IN IF missingDir /\ env.disk = "throw" THEN mediaResult(fs, NullItem)
     ELSE IF msg.imageMd5 = <<>> /\ msg.imageDatName = <<>> THEN mediaResult(made, NullItem)
     ELSE IF env.decrypt.st = "throw" THEN mediaResult(made, NullItem)
     ELSE IF useThumb /\ (env.thumb.st # "ok" \/ env.thumb.localPath = <<>>)
       THEN mediaResult(made, NullItem)
     ELSE IF StartsWithAt(localPath, 1, <<"data:">>) THEN
       LET fileName == name \o getExtFromDataUrl(localPath)
           destPath == Append(imagesDir, fileName)
       IN IF env.disk = "throw" THEN mediaResult(made, NullItem)
          ELSE mediaResult(
                 writeFileSync(made, destPath, BufferFromBase64(afterComma(localPath))),
                 MediaItem("image", "images", fileName))
     ELSE IF sourcePath \in env.cacheFiles THEN
       LET fileName == name \o Or(extname(sourcePath), <<".jpg">>)
           destPath == Append(imagesDir, fileName)
       IN IF existsSync(made, destPath)
          THEN mediaResult(made, MediaItem("image", "images", fileName))
          ELSE IF env.disk = "throw" THEN mediaResult(made, NullItem)
          ELSE mediaResult(writeFileSync(made, destPath, sourcePath),
                           MediaItem("image", "images", fileName))
     ELSE mediaResult(made, NullItem)

\* What a caller would see if an exception left an exporter.
ThrownItem == [kind |-> "thrown", relativePath |-> <<>>]

\* An exportVoice whose exceptions leave it.
exportVoice_NoCatch(fs, msg, sessionId, mediaDir, env) ==
  LET voicesDir == mediaDir \o << <<"media">>, <<"voices">> >>
      missingDir == ~existsSync(fs, voicesDir)
      made == IF missingDir THEN mkdirSync(fs, voicesDir) ELSE fs
      fileName == <<"voice_">> \o String(msg.localId) \o <<".wav">>
      destPath == Append(voicesDir, fileName)
  IN IF missingDir /\ env.disk = "throw" THEN mediaResult(fs, ThrownItem)
     ELSE IF existsSync(made, destPath)
       THEN mediaResult(made, MediaItem("voice", "voices", fileName))
     ELSE IF env.voice.st = "throw" THEN mediaResult(made, ThrownItem)
     ELSE IF env.voice.st # "ok" \/ env.voice.data = <<>> THEN mediaResult(made, NullItem)
     ELSE IF env.disk = "throw" THEN mediaResult(made, ThrownItem)
     ELSE mediaResult(writeFileSync(made, destPath, BufferFromBase64(env.voice.data)),
                      MediaItem("voice", "voices", fileName))

exportVoice(fs, msg, sessionId, mediaDir, env) ==
  LET voicesDir == mediaDir \o << <<"media">>, <<"voices">> >>
      missingDir == ~existsSync(fs, voicesDir)
      made == IF missingDir THEN mkdirSync(fs, voicesDir) ELSE fs
      fileName == <<"voice_">> \o String(msg.localId) \o <<".wav">>
      destPath == Append(voicesDir, fileName)
  IN IF missingDir /\ env.disk = "throw" THEN mediaResult(fs, NullItem)
     ELSE IF existsSync(made, destPath)
       THEN mediaResult(made, MediaItem("voice", "voices", fileName))
     ELSE IF env.voice.st # "ok" \/ env.voice.data = <<>> THEN mediaResult(made, NullItem)
     ELSE IF env.disk = "throw" THEN mediaResult(made, NullItem)
     ELSE mediaResult(writeFileSync(made, destPath, BufferFromBase64(env.voice.data)),
                      MediaItem("voice", "voices", fileName))

\* downloadFile: one response per request. A redirect with a location is
\* followed; the body of a 200 goes to a write stream on destPath, which
\* finishes, fails to open ("openError") or fails after it has opened the
\* file ("error"). No response is a request error or a timeout.
RECURSIVE downloadFile(_, _, _, _, _)
downloadFile(fs, url, destPath, responses, disk) ==
  IF responses = <<>> THEN mediaResult(fs, FALSE)
  ELSE LET response == Head(responses)
       IN IF response.statusCode \in {301, 302} /\ response.location # <<>>
            THEN downloadFile(fs, response.location, destPath, Tail(responses), disk)
          ELSE IF response.statusCode # 200 THEN mediaResult(fs, FALSE)
          ELSE IF disk = "throw" THEN mediaResult(fs, FALSE)
          ELSE IF response.stream = "finish"
            THEN mediaResult(writeFileSync(fs, destPath, response.body), TRUE)
          ELSE IF response.stream = "error"
            THEN mediaResult(writeFileSync(fs, destPath, <<>>), FALSE)
          ELSE mediaResult(fs, FALSE)

\* A download in progress: whether the function is being called
\* ("calling"), waits for the answer to its request ("pending") or has
\* resolved its promise ("resolved"); the url asked, the redirects that
\* downloadToBuffer may still follow, the requests made so far (counted up
\* to MaxRequests) and, once the promise is resolved, its result and what
\* is at destPath. server gives the answer of the network to a request for
\* a url: [kind, statusCode, location, stream], kind "response", "error" or
\* "timeout".
MaxRequests == 5

Counted(requests) == IF requests < MaxRequests THEN requests + 1 ELSE requests

\* protocol.get(url, ...): the request is on its way.
Requested(d) == [d EXCEPT !.pc = "pending", !.requests = Counted(@)]

Resolved(d, result, file) ==
  [d EXCEPT !.pc = "resolved", !.result = result, !.file = file]

\* downloadFile once its request is answered.
downloadFileResponse(d, answer) ==
  IF answer.kind # "response" THEN Resolved(d, "false", "none")
  ELSE IF answer.statusCode \in {301, 302} /\ answer.location # <<>>
    THEN [d EXCEPT !.pc = "calling", !.url = answer.location]
  ELSE IF answer.statusCode # 200 THEN Resolved(d, "false", "none")
  ELSE IF answer.stream = "finish" THEN Resolved(d, "true", "body")
  ELSE Resolved(d, "false", "empty")

\* downloadToBuffer once its request is answered.
downloadToBufferResponse(d, answer) ==
  IF answer.kind # "response" THEN Resolved(d, "null", "none")
  ELSE IF /\ answer.statusCode >= 300 /\ answer.statusCode < 400
          /\ answer.location # <<>> /\ d.remainingRedirects > 0
    THEN [d EXCEPT !.pc = "calling", !.url = answer.location, !.remainingRedirects = @ - 1]
  ELSE IF answer.statusCode < 200 \/ answer.statusCode >= 300
    THEN Resolved(d, "null", "none")
  ELSE Resolved(d, "data", "none")

exportEmoji(fs, msg, sessionId, mediaDir, env) ==
  LET emojisDir == mediaDir \o << <<"media">>, <<"emojis">> >>
      missingDir == ~existsSync(fs, emojisDir)
      made == IF missingDir THEN mkdirSync(fs, emojisDir) ELSE fs
      emojiUrl == msg.emojiCdnUrl
      key == Or(msg.emojiMd5, String(msg.localId))
      ext == IF Includes(emojiUrl, <<".png">>) THEN <<".png">>
             ELSE IF Includes(emojiUrl, <<".jpg">>) \/ Includes(emojiUrl, <<".jpeg">>)
               THEN <<".jpg">>
             ELSE <<".gif">>
      fileName == key \o ext
      destPath == Append(emojisDir, fileName)
      downloaded == downloadFile(made, emojiUrl, destPath, env.http, env.disk)
  IN IF missingDir /\ env.disk = "throw" THEN mediaResult(fs, NullItem)
     ELSE IF emojiUrl = <<>> /\ msg.emojiMd5 = <<>> THEN mediaResult(made, NullItem)
     ELSE IF existsSync(made, destPath)
       THEN mediaResult(made, MediaItem("emoji", "emojis", fileName))
     ELSE IF emojiUrl = <<>> THEN mediaResult(made, NullItem)
     ELSE IF downloaded.v
       THEN mediaResult(downloaded.fs, MediaItem("emoji", "emojis", fileName))
     ELSE mediaResult(downloaded.fs, NullItem)

exportMediaForMessage(fs, msg, sessionId, mediaDir, options, env) ==
  IF msg.localType = "3" /\ options.exportImages
    THEN exportImage(fs, msg, sessionId, mediaDir, env)
  ELSE IF msg.localType = "34" /\ options.exportVoiceAsText THEN mediaResult(fs, NullItem)
  ELSE IF msg.localType = "34" /\ options.exportVoices
    THEN exportVoice(fs, msg, sessionId, mediaDir, env)
  ELSE IF msg.localType = "47" /\ options.exportEmojis
    THEN exportEmoji(fs, msg, sessionId, mediaDir, env)
  ELSE mediaResult(fs, NullItem)

(***************************************************************************)
(* 4.6 Connection check and contact cache                                  *)
(*                                                                         *)
(* The world w is what an export changes: [cache, fs, progress, cursors].  *)
(* cache is the contactCache of the service, fs the disk, progress the     *)
(* events given to onProgress, cursors the log of the cursor calls, media  *)
(* the messages that exportMediaForMessage was called with, in order, and  *)
(* asked the lookups of names, avatars and contacts made: [fn, ids].       *)
(* e is what the collaborators answer: the configuration, wcdbService.open *)
(* ("ok", "fail", "throw"), the name and avatar lookups [st, map], the     *)
(* contact details, and for each conversation its cursor, its batches, its *)
(* roster and the outcome of creating its folder and writing its file.     *)
(* A function that changes the world returns [ex, v, w].                   *)
(***************************************************************************)
EmptyWorld ==
  [cache |-> <<>>, fs |-> EmptyDisk, progress |-> <<>>, cursors |-> <<>>, media |-> <<>>,
   asked |-> <<>>]

Done(v, w) == [ex |-> FALSE, v |-> v, w |-> w]

Raised(w) == [ex |-> TRUE, v |-> <<>>, w |-> w]

ErrorWxid == <<"[configure the account id first]">>

ErrorDbPath == <<"[configure the database path first]">>

ErrorDecryptKey == <<"[configure the decryption key first]">>

ErrorOpen == <<"[WCDB open failed]">>

\* String(e) of a caught exception
ErrorThrown == <<"[Error]">>

ConnFailure(error) == Ret([success |-> FALSE, cleanedWxid |-> <<>>, error |-> error])

\* A connection check that does not look at the decryption key.
ensureConnected_NoKeyCheck(e) ==
  LET cleanedWxid == cleanAccountDirName(e.config.myWxid)
  IN IF e.config.myWxid = <<>> THEN ConnFailure(ErrorWxid)
     ELSE IF e.config.dbPath = <<>> THEN ConnFailure(ErrorDbPath)
     ELSE IF e.open = "throw" THEN Throw
     ELSE IF e.open # "ok" THEN ConnFailure(ErrorOpen)
     ELSE Ret([success |-> TRUE, cleanedWxid |-> cleanedWxid, error |-> <<>>])

ensureConnected(e) ==
  LET cleanedWxid == cleanAccountDirName(e.config.myWxid)
  IN IF e.config.myWxid = <<>> THEN ConnFailure(ErrorWxid)
     ELSE IF e.config.dbPath = <<>> THEN ConnFailure(ErrorDbPath)
     ELSE IF e.config.decryptKey = <<>> THEN ConnFailure(ErrorDecryptKey)
     ELSE IF e.open = "throw" THEN Throw
     ELSE IF e.open # "ok" THEN ConnFailure(ErrorOpen)
     ELSE Ret([success |-> TRUE, cleanedWxid |-> cleanedWxid, error |-> <<>>])

\* A lookup of the store is made for these identifiers.
Asking(w, fn, ids) == [w EXCEPT !.asked = Append(@, [fn |-> fn, ids |-> ids])]

\* getContactInfo asks for the name and the avatar of an identifier.
AskingBoth(w, username) ==
  Asking(Asking(w, "getDisplayNames", {username}), "getAvatarUrls", {username})

getContactInfo_NoFallback(w, e, username) ==
  IF username \in DOMAIN w.cache THEN Done(w.cache[username], w)
  ELSE IF e.names.st = "throw" \/ e.avatars.st = "throw" \/ username \in e.rejects
    THEN Raised(AskingBoth(w, username))
  ELSE LET info == [displayName |-> IF e.names.st = "ok"
                                    THEN MapAt(e.names.map, username)
                                    ELSE username,
                    avatarUrl |-> IF e.avatars.st = "ok"
                                  THEN MapAt(e.avatars.map, username)
                                  ELSE <<>>]
       IN Done(info, [AskingBoth(w, username) EXCEPT !.cache = (username :> info) @@ @])

getContactInfo(w, e, username) ==
  IF username \in DOMAIN w.cache THEN Done(w.cache[username], w)
  ELSE IF e.names.st = "throw" \/ e.avatars.st = "throw" \/ username \in e.rejects
    THEN Raised(AskingBoth(w, username))
  ELSE LET info == [displayName |-> IF e.names.st = "ok"
                                    THEN Or(MapAt(e.names.map, username), username)
                                    ELSE username,
                    avatarUrl |-> IF e.avatars.st = "ok"
                                  THEN MapAt(e.avatars.map, username)
                                  ELSE <<>>]
       IN Done(info, [AskingBoth(w, username) EXCEPT !.cache = (username :> info) @@ @])

(***************************************************************************)
(* Row fields and media references                                         *)
(***************************************************************************)
DigitVal(c) == CHOOSE n \in 0..9 : ToString(n) = c

\* parseInt(ds, 10) of a text of decimal digits
RECURSIVE parseInt(_)
parseInt(ds) ==
  IF ds = <<>> THEN 0 ELSE 10 * parseInt(SubSeq(ds, 1, Len(ds) - 1)) + DigitVal(ds[Len(ds)])

\* The first match of  pre ([^excl]+) post : as FirstMatch, the capture not
\* empty.
FirstMatchSome(s, pre, post, excl) ==
  LET ends(i) == {j \in (i + Len(pre) + 1)..(Len(s) + 1) :
                    /\ StartsWithAt(s, j, post)
                    /\ \A k \in (i + Len(pre))..(j - 1) : s[k] \notin excl}
      starts == {i \in 1..Len(s) : StartsWithAt(s, i, pre) /\ ends(i) # {}}
  IN IF starts = {} THEN NoMatch
     ELSE LET i == Min(starts)
              j == Min(ends(i))
          IN [found |-> TRUE, cap |-> SubSeq(s, i + Len(pre), j - 1)]

\* The first match of  name [^>]* > ([^<]+) : the text that follows the end
\* of the tag in which name occurs.
TextAfterTag(s, name) ==
  LET close(i) == Min({j \in i..(Len(s) + 1) : j = Len(s) + 1 \/ s[j] = ">"})
      starts == {i \in 1..Len(s) :
                   /\ s[i] = name
                   /\ close(i + 1) < Len(s)
                   /\ s[close(i + 1) + 1] # "<"}
  IN IF starts = {} THEN <<>>
     ELSE LET from == close(Min(starts) + 1) + 1
          IN SubSeq(s, from, from + RunLengthNot(SubSeq(s, from, Len(s)), {"<"}) - 1)

extractImageMd5(content) == FirstMatchSome(content, <<"md5=\"">>, <<"\"">>, {"\""}).cap

extractImageDatName(content) ==
  LET url == TextAfterTag(content, "cdnthumburl")
      slashes == {i \in 1..Len(url) : url[i] = "/"}
      last == IF slashes = {} THEN url
              ELSE SubSeq(url, CHOOSE i \in slashes : \A j \in slashes : j <= i, Len(url))
      lastPart == IF slashes = {} THEN url ELSE Tail(last)
  IN IF "_" \in {lastPart[i] : i \in 1..Len(lastPart)}
     THEN SubSeq(lastPart, 1, RunLengthNot(lastPart, {"_"}))
     ELSE <<>>

\* decodeURIComponent: "%20" stands for an escape, a lone "%" is malformed
\* and makes it throw, which extractEmojiUrl ignores.
decodeURIComponent(url) ==
  IF "%" \in {url[i] : i \in 1..Len(url)} THEN url
  ELSE [i \in 1..Len(url) |-> IF url[i] = "%20" THEN " " ELSE url[i]]

extractEmojiUrl(content) ==
  LET attr == FirstMatchSome(content, <<"cdnurl", "=", "\"">>, <<"\"">>, {"\"", "'"})
      unescaped == [i \in 1..Len(attr.cap) |->
                      IF attr.cap[i] = "&amp;" THEN "&" ELSE attr.cap[i]]
  IN IF attr.found THEN decodeURIComponent(unescaped)
     ELSE TextAfterTag(content, "cdnurl")

extractEmojiMd5(content) ==
  LET attr == FirstMatchSome(content, <<"md5=\"">>, <<"\"">>, {"\""})
      tag == FirstMatchSome(content, <<"<md5>">>, <<"</md5>">>, {"<"})
  IN IF attr.found THEN attr.cap ELSE tag.cap

(***************************************************************************)
(* 4.6 Collecting the messages of a conversation                           *)
(*                                                                         *)
(* A row of a batch is [create_time, message_content, compress_content,    *)
(* local_type, type, sender_username, computed_is_send, is_send,           *)
(* local_id]: numbers come as texts of digits, the empty text is a field   *)
(* that is absent. dateRange is [on, start, end], on = FALSE for null.     *)
(***************************************************************************)
\* firstTime and lastTime before any row: null
NoTime == -1

collectStart(w) ==
  [ex |-> FALSE, w |-> w, rows |-> <<>>, memberSet |-> <<>>,
   firstTime |-> NoTime, lastTime |-> NoTime]

\* The message that the row loop of collectMessages pushes for a row.
collectedMessage(row, content, createTime, isSend, sessionId, cleanedMyWxid) ==
  [localId |-> parseInt(Or(row.local_id, <<"0">>)),
   createTime |-> createTime,
   localType |-> IF row.local_type # "" THEN row.local_type
                 ELSE IF row.type # "" THEN row.type
                 ELSE "1",
   content |-> content,
   senderUsername |-> IF isSend THEN cleanedMyWxid ELSE Or(row.sender_username, sessionId),
   isSend |-> isSend,
   imageMd5 |-> <<>>, imageDatName |-> <<>>, emojiCdnUrl |-> <<>>, emojiMd5 |-> <<>>]

\* The media references of a message: those of an image (local type 3)
\* or of an animated emoji (47) whose content is not empty.
withMediaFields(msg) ==
  IF msg.localType = "3" /\ msg.content # <<>>
    THEN [msg EXCEPT !.imageMd5 = extractImageMd5(msg.content),
                     !.imageDatName = extractImageDatName(msg.content)]
  ELSE IF msg.localType = "47" /\ msg.content # <<>>
    THEN [msg EXCEPT !.emojiCdnUrl = extractEmojiUrl(msg.content),
                     !.emojiMd5 = extractEmojiMd5(msg.content)]
  ELSE msg

\* The row loop of collectMessages once the sender of the row is known:
\* memberInfo is what getContactInfo answered.
collectSender(acc, msg, memberInfo) ==
  IF memberInfo.ex THEN [acc EXCEPT !.ex = TRUE, !.w = memberInfo.w]
  ELSE [ex |-> FALSE,
        w |-> memberInfo.w,
        rows |-> Append(acc.rows, withMediaFields(msg)),
        memberSet |-> IF MapHas(acc.memberSet, msg.senderUsername) THEN acc.memberSet
                      ELSE Append(acc.memberSet,
                                  [key |-> msg.senderUsername,
                                   platformId |-> msg.senderUsername,
                                   accountName |-> memberInfo.v.displayName,
                                   groupNickname |-> <<>>,
                                   avatarUrl |-> memberInfo.v.avatarUrl]),
        firstTime |-> IF acc.firstTime = NoTime \/ msg.createTime < acc.firstTime
                      THEN msg.createTime ELSE acc.firstTime,
        lastTime |-> IF acc.lastTime = NoTime \/ msg.createTime > acc.lastTime
                     THEN msg.createTime ELSE acc.lastTime]

\* The row loop of collectMessages once the row is read as a message.
collectMember(acc, msg, e) ==
  collectSender(acc, msg, getContactInfo(acc.w, e, msg.senderUsername))

\* The row loop of collectMessages once the content is decoded.
collectDecoded(acc, row, decoded, createTime, e, sessionId, cleanedMyWxid) ==
  IF decoded.ex THEN [acc EXCEPT !.ex = TRUE]
  ELSE collectMember(acc,
                     collectedMessage(row, decoded.v, createTime,
                                      parseInt(Or(Or(row.computed_is_send, row.is_send),
                                                  <<"0">>)) = 1,
                                      sessionId, cleanedMyWxid),
                     e)

\* A date filter that knows no end of the range.
collectTimed_NoEnd(acc, row, createTime, e, sessionId, cleanedMyWxid, dateRange) ==
  IF dateRange.on /\ createTime < dateRange.start
    THEN acc
  ELSE collectDecoded(acc, row,
                      decodeMessageContent(row.message_content, row.compress_content,
                                           e.zstd),
                      createTime, e, sessionId, cleanedMyWxid)

\* The row loop of collectMessages once createTime is read: the date
\* filter, then the decoding.
collectTimed(acc, row, createTime, e, sessionId, cleanedMyWxid, dateRange) ==
  IF dateRange.on /\ (createTime < dateRange.start \/ createTime > dateRange.end)
    THEN acc
  ELSE collectDecoded(acc, row,
                      decodeMessageContent(row.message_content, row.compress_content,
                                           e.zstd),
                      createTime, e, sessionId, cleanedMyWxid)

\* One turn of the row loop of collectMessages.
collectRow(acc, row, e, sessionId, cleanedMyWxid, dateRange) ==
  collectTimed(acc, row, parseInt(Or(row.create_time, <<"0">>)), e, sessionId,
               cleanedMyWxid, dateRange)

RECURSIVE collectRows(_, _, _, _, _, _)
collectRows(acc, rows, e, sessionId, cleanedMyWxid, dateRange) ==
  IF rows = <<>> \/ acc.ex THEN acc
  ELSE collectRows(collectRow(acc, Head(rows), e, sessionId, cleanedMyWxid, dateRange),
                   Tail(rows), e, sessionId, cleanedMyWxid, dateRange)

\* The batch loop: batches are the answers of fetchMessageBatch in order,
\* [st, rows, hasMore]; a fetch after the last of them fails.
RECURSIVE collectBatches(_, _, _, _, _, _)

\* The batch loop once the rows of a batch are read.
collectNext(after, batches, e, sessionId, cleanedMyWxid, dateRange) ==
  IF after.ex \/ ~Head(batches).hasMore THEN after
  ELSE collectBatches(after, Tail(batches), e, sessionId, cleanedMyWxid, dateRange)

\* The batch loop once fetchMessageBatch is called.
collectFetched(fetched, batches, e, sessionId, cleanedMyWxid, dateRange) ==
  IF batches = <<>> THEN fetched
  ELSE IF Head(batches).st = "throw" THEN [fetched EXCEPT !.ex = TRUE]
  ELSE IF Head(batches).st # "ok" THEN fetched
  ELSE collectNext(collectRows(fetched, Head(batches).rows, e, sessionId, cleanedMyWxid,
                               dateRange),
                   batches, e, sessionId, cleanedMyWxid, dateRange)

collectBatches(acc, batches, e, sessionId, cleanedMyWxid, dateRange) ==
  collectFetched([acc EXCEPT !.w.cursors = Append(@, "fetch")], batches, e, sessionId,
                 cleanedMyWxid, dateRange)

\* A collectOpened without finally: the cursor is closed only when the batch
\* loop ends without an exception.
collectOpened_NoFinally(asked, cursor, e, sessionId, cleanedMyWxid, dateRange) ==
  IF cursor = "throw" THEN [asked EXCEPT !.ex = TRUE]
  ELSE IF cursor # "ok" THEN asked
  ELSE IF collectBatches(asked, e.sessions[sessionId].batches, e, sessionId, cleanedMyWxid, dateRange).ex
    THEN collectBatches(asked, e.sessions[sessionId].batches, e, sessionId, cleanedMyWxid, dateRange)
  ELSE [collectBatches(asked, e.sessions[sessionId].batches, e, sessionId, cleanedMyWxid,
                       dateRange)
          EXCEPT !.w.cursors = Append(@, "close")]

\* collectMessages: [ex, w, rows, memberSet, firstTime, lastTime]. The
\* cursor of the conversation opens ("ok"), reports failure ("fail"), gives
\* no handle ("nohandle") or the call rejects ("throw").
collectOpened(asked, cursor, e, sessionId, cleanedMyWxid, dateRange) ==
  IF cursor = "throw" THEN [asked EXCEPT !.ex = TRUE]
  ELSE IF cursor # "ok" THEN asked
  ELSE [collectBatches(asked, e.sessions[sessionId].batches, e, sessionId, cleanedMyWxid,
                       dateRange)
          EXCEPT !.w.cursors = Append(@, "close")]

collectMessages(w, e, sessionId, cleanedMyWxid, dateRange) ==
  collectOpened(collectStart([w EXCEPT !.cursors =
                                Append(@, IF e.sessions[sessionId].cursor = "ok"
                                          THEN "open" ELSE "refused")]),
                e.sessions[sessionId].cursor, e, sessionId, cleanedMyWxid, dateRange)

\* A sort by createTime that puts an element before the elements of its
\* own time.
RECURSIVE sortByCreateTime_TiesReversed(_)
sortByCreateTime_TiesReversed(rows) ==
  IF rows = <<>> THEN <<>>
  ELSE LET last == rows[Len(rows)]
           sorted == sortByCreateTime_TiesReversed(SubSeq(rows, 1, Len(rows) - 1))
           before == SelectSeq(sorted, LAMBDA r : r.createTime < last.createTime)
           after == SelectSeq(sorted, LAMBDA r : r.createTime >= last.createTime)
       IN before \o <<last>> \o after

\* Array.prototype.sort with (a, b) => a.createTime - b.createTime, which
\* is stable: an element goes after every element that is not later.
RECURSIVE sortByCreateTime(_)
sortByCreateTime(rows) ==
  IF rows = <<>> THEN <<>>
  ELSE LET last == rows[Len(rows)]
           sorted == sortByCreateTime(SubSeq(rows, 1, Len(rows) - 1))
           before == SelectSeq(sorted, LAMBDA r : r.createTime <= last.createTime)
           after == SelectSeq(sorted, LAMBDA r : r.createTime > last.createTime)
       IN before \o <<last>> \o after

(***************************************************************************)
(* 4.5 Writers and 4.6 single-conversation exports                         *)
(*                                                                         *)
(* options is [format, dateRange, exportAvatars, exportImages,             *)
(* exportVoices, exportEmojis, exportVoiceAsText, excelCompactColumns];    *)
(* onProgress is "none" (no callback given), "ok" or "throw" (the callback *)
(* throws). An export returns [w, v, fetched]: v is its result [success,   *)
(* error] and fetched the rows as collectMessages returned them.           *)
(***************************************************************************)
ExportFailed(w, error) ==
  [w |-> w, v |-> [success |-> FALSE, error |-> error], fetched |-> <<>>]

ExportDone(w, fetched) ==
  [w |-> w, v |-> [success |-> TRUE, error |-> <<>>], fetched |-> fetched]

\* An export without catch: the exception of the step leaves it.
Caught_Escapes(step) ==
  [w |-> step.w, v |-> [success |-> FALSE, error |-> <<>>, thrown |-> TRUE],
   fetched |-> <<>>]

\* The catch of an export, after a step [ex, w, ...] that threw.
Caught(step) == ExportFailed(step.w, ErrorThrown)

\* The arguments of an export, as its steps read them.
ExportCall(e, sessionId, outputPath, options, onProgress) ==
  [e |-> e, sessionId |-> sessionId, outputPath |-> outputPath, options |-> options,
   onProgress |-> onProgress, isGroup |-> Includes(sessionId, <<"@chatroom">>)]

\* onProgress?.({ current, total, currentSession, phase }): [ex, w]
report(w, onProgress, current, total, currentSession, phase) ==
  IF onProgress = "none" THEN [ex |-> FALSE, w |-> w]
  ELSE IF onProgress = "throw" THEN [ex |-> TRUE, w |-> w]
  ELSE [ex |-> FALSE,
        w |-> [w EXCEPT !.progress =
                 Append(@, [current |-> current, total |-> total,
                            currentSession |-> currentSession, phase |-> phase])]]

\* An object as JSON.stringify writes it: a key of optional whose value is
\* absent is left out.
Stringify(obj, optional) ==
  [k \in {key \in DOMAIN obj : ~(key \in optional /\ obj[key] = <<>>)} |-> obj[k]]

LabelTranscript == <<"[voice to text] ">>

LabelNoTranscript == <<"[voice message - transcription failed]">>

\* transcribeVoice: e.transcript is what getVoiceTranscript answers,
\* [st, transcript].
transcribeVoice(e) ==
  IF e.transcript.st = "ok" /\ e.transcript.transcript # <<>>
  THEN LabelTranscript \o e.transcript.transcript
  ELSE LabelNoTranscript

\* The summary of a message: parseMessageContent, or the transcript of a
\* voice message when transcription is on.
summaryParsed(parsed, msg, e, options) ==
  IF parsed.ex THEN Thrown
  ELSE IF msg.localType = "34" /\ options.exportVoiceAsText THEN Str(transcribeVoice(e))
  ELSE parsed

summaryOf(msg, e, options) ==
  summaryParsed(parseMessageContent(msg.content, msg.localType), msg, e, options)

\* exportAvatars: the avatar of each member that has one and whose picture
\* can be read (e.avatarFetch = "ok"), as a data URL.
exportAvatars(members, e) ==
  LET has == {i \in 1..Len(members) : members[i].avatarUrl # <<>> /\ e.avatarFetch = "ok"}
  IN [u \in {members[i].username : i \in has} |->
        <<"data:">> \o (CHOOSE url \in {members[i].avatarUrl : i \in has} :
                          \E i \in has : members[i].username = u
                                         /\ members[i].avatarUrl = url
                                         /\ \A j \in has : members[j].username = u => j <= i)]

getExportMeta(sessionId, sessionInfo, isGroup, sessionAvatar, e) ==
  [chatlab |-> [version |-> <<"0.0.2">>, exportedAt |-> e.now, generator |-> <<"WeFlow">>],
   meta |-> Stringify([name |-> sessionInfo.displayName,
                       platform |-> <<"wechat">>,
                       type |-> IF isGroup THEN <<"group">> ELSE <<"private">>,
                       groupId |-> IF isGroup THEN sessionId ELSE <<>>,
                       groupAvatar |-> sessionAvatar],
                      {"groupId", "groupAvatar"})]

\* The member a ChatLab message is written for: the one of the member
\* set, or the sender under its own id.
senderMember(memberSet, senderUsername) ==
  IF MapHas(memberSet, senderUsername) THEN MapGet(memberSet, senderUsername)
  ELSE [platformId |-> senderUsername, accountName |-> senderUsername,
        groupNickname |-> <<>>]

\* The message that the loop of exportSessionToChatLab pushes.
chatLabMessage(msg, memberInfo, content) ==
  [sender |-> msg.senderUsername,
   accountName |-> memberInfo.accountName,
   groupNickname |-> memberInfo.groupNickname,
   timestamp |-> msg.createTime,
   type |-> convertMessageType(msg.localType, msg.content),
   content |-> [null |-> content.null, v |-> content.v]]

\* The message loop of exportSessionToChatLab; acc is [ex, v].
RECURSIVE chatLabMessages(_, _, _, _, _)

\* The message loop once the content of the message is read.
chatLabPush(acc, allMessages, content, memberSet, e, options) ==
  IF content.ex THEN Throw
  ELSE chatLabMessages(
         Ret(Append(acc.v,
                    chatLabMessage(Head(allMessages),
                                   senderMember(memberSet, Head(allMessages).senderUsername),
                                   content))),
         Tail(allMessages), memberSet, e, options)

chatLabMessages(acc, allMessages, memberSet, e, options) ==
  IF allMessages = <<>> THEN acc
  ELSE chatLabPush(acc, allMessages, summaryOf(Head(allMessages), e, options), memberSet,
                   e, options)

\* A ChatLab writer whose JSONL file has its message lines before its
\* member lines.
chatLabFile_MessagesFirst(format, chatlab, meta, members, messages) ==
  IF format = "chatlab-jsonl"
  THEN [kind |-> "jsonl",
        lines |-> << [_type |-> "header", chatlab |-> chatlab, meta |-> meta] >>
                  \o [i \in 1..Len(messages) |->
                        Stringify(messages[i] @@ [_type |-> "message"], {"groupNickname"})]
                  \o [i \in 1..Len(members) |->
                        Stringify(members[i] @@ [_type |-> "member"],
                                  {"groupNickname", "avatar"})]]
  ELSE [kind |-> "json",
        value |-> [chatlab |-> chatlab, meta |-> meta,
                   members |-> [i \in 1..Len(members) |->
                                  Stringify(members[i], {"groupNickname", "avatar"})],
                   messages |-> [i \in 1..Len(messages) |->
                                   Stringify(messages[i], {"groupNickname"})]]]

\* The file of a ChatLab export: one JSON document, or one JSON line for
\* the header, each member and each message. In { _type: ..., ...member }
\* a key of the member wins over the tag.
chatLabFile(format, chatlab, meta, members, messages) ==
  IF format = "chatlab-jsonl"
  THEN [kind |-> "jsonl",
        lines |-> << [_type |-> "header", chatlab |-> chatlab, meta |-> meta] >>
                  \o [i \in 1..Len(members) |->
                        Stringify(members[i] @@ [_type |-> "member"],
                                  {"groupNickname", "avatar"})]
                  \o [i \in 1..Len(messages) |->
                        Stringify(messages[i] @@ [_type |-> "message"], {"groupNickname"})]]
  ELSE [kind |-> "json",
        value |-> [chatlab |-> chatlab, meta |-> meta,
                   members |-> [i \in 1..Len(members) |->
                                  Stringify(members[i], {"groupNickname", "avatar"})],
                   messages |-> [i \in 1..Len(messages) |->
                                   Stringify(messages[i], {"groupNickname"})]]]

\* The members whose avatars an export saves: the member set and the
\* conversation itself.
avatarOwners(memberSet, sessionId, sessionInfo) ==
  [i \in 1..Len(memberSet) |->
     [username |-> memberSet[i].key, avatarUrl |-> memberSet[i].avatarUrl]]
    \o << [username |-> sessionId, avatarUrl |-> sessionInfo.avatarUrl] >>

\* The avatars of an export: none unless options.exportAvatars.
avatarsOf(memberSet, sessionInfo, call) ==
  IF call.options.exportAvatars
  THEN exportAvatars(avatarOwners(memberSet, call.sessionId, sessionInfo), call.e)
  ELSE <<>>

\* The members of a ChatLab export, each with its avatar if it has one.
chatLabMembers(memberSet, avatarMap) ==
  [i \in 1..Len(memberSet) |->
     [platformId |-> memberSet[i].platformId,
      accountName |-> memberSet[i].accountName,
      groupNickname |-> memberSet[i].groupNickname,
      avatar |-> MapAt(avatarMap, memberSet[i].platformId)]]

\* The document of a ChatLab export.
chatLabExport(header, members, messages, call) ==
  chatLabFile(call.options.format, header.chatlab, header.meta, members, messages)

\* The document of a ChatLab export, from its avatars.
chatLabDocument(avatarMap, memberSet, messages, sessionInfo, call) ==
  chatLabExport(getExportMeta(call.sessionId, sessionInfo, call.isGroup,
                              MapAt(avatarMap, call.sessionId), call.e),
                chatLabMembers(memberSet, avatarMap), messages, call)

\* fs.writeFileSync(outputPath, ...) of an export: e.sessions[sessionId].write
\* tells whether the disk takes the file.
writeExport(w, file, call) ==
  IF call.e.sessions[call.sessionId].write # "ok" THEN Raised(w)
  ELSE Done(TRUE, [w EXCEPT !.fs = writeFileSync(@, call.outputPath, file)])

\* The end of an export: the progress event of phase 'complete'.
exportComplete(complete, fetched) ==
  IF complete.ex THEN Caught(complete) ELSE ExportDone(complete.w, fetched)

\* An export that reports 'complete' whether or not its file was written.
exportWritten_CompleteAnyway(written, sessionInfo, fetched, call) ==
  IF written.ex
    THEN Caught(report(written.w, call.onProgress, 100, 100, sessionInfo.displayName,
                       "complete"))
  ELSE exportComplete(report(written.w, call.onProgress, 100, 100,
                             sessionInfo.displayName, "complete"),
                      fetched)

\* An export once its file is written.
exportWritten(written, sessionInfo, fetched, call) ==
  IF written.ex THEN Caught(written)
  ELSE exportComplete(report(written.w, call.onProgress, 100, 100,
                             sessionInfo.displayName, "complete"),
                      fetched)

\* exportSessionToChatLab from the progress event of phase 'writing'.
chatLabWriting(writing, messages, memberSet, sessionInfo, fetched, call) ==
  IF writing.ex THEN Caught(writing)
  ELSE exportWritten(writeExport(writing.w,
                                 chatLabDocument(avatarsOf(memberSet, sessionInfo, call),
                                                 memberSet, messages, sessionInfo, call),
                                 call),
                     sessionInfo, fetched, call)

\* exportSessionToChatLab from the end of its message loop.
chatLabMapped(messages, w, memberSet, sessionInfo, fetched, call) ==
  IF messages.ex THEN ExportFailed(w, ErrorThrown)
  ELSE chatLabWriting(report(w, call.onProgress, 80, 100, sessionInfo.displayName,
                             "writing"),
                      messages.v, memberSet, sessionInfo, fetched, call)

\* exportSessionToChatLab from the progress event of phase 'exporting'.
chatLabExporting(exporting, memberSet, sessionInfo, fetched, call) ==
  IF exporting.ex THEN Caught(exporting)
  ELSE chatLabMapped(chatLabMessages(Ret(<<>>), sortByCreateTime(fetched), memberSet,
                                     call.e, call.options),
                     exporting.w, memberSet, sessionInfo, fetched, call)

\* exportSessionToChatLab from the merge of the group members.
chatLabMerged(merged, collected, sessionInfo, call) ==
  IF merged.ex THEN Caught(collected)
  ELSE chatLabExporting(report(collected.w, call.onProgress, 50, 100,
                               sessionInfo.displayName, "exporting"),
                        merged.v, sessionInfo, collected.rows, call)

\* The lookups that mergeGroupMembers makes for a roster.
mergeAsked(w, includeAvatars, roster) ==
  IF roster.st # "ok" \/ lookupUsernames(roster.members) = {} THEN w
  ELSE IF includeAvatars
    THEN Asking(Asking(w, "getDisplayNames", lookupUsernames(roster.members)),
                "getAvatarUrls", lookupUsernames(roster.members))
  ELSE Asking(w, "getDisplayNames", lookupUsernames(roster.members))

\* exportSessionToChatLab from the answer of collectMessages.
chatLabCollected(collected, sessionInfo, call) ==
  IF collected.ex THEN Caught(collected)
  ELSE IF call.isGroup
    THEN chatLabMerged(mergeGroupMembers(collected.memberSet, call.options.exportAvatars,
                                         call.e.sessions[call.sessionId].roster,
                                         call.e.names, call.e.avatars),
                       [collected EXCEPT !.w = mergeAsked(@, call.options.exportAvatars,
                                                          call.e.sessions[call.sessionId].roster)],
                       sessionInfo, call)
  ELSE chatLabMerged(Ret(collected.memberSet), collected, sessionInfo, call)

\* exportSessionToChatLab from the progress event of phase 'preparing'.
chatLabPreparing(preparing, cleanedMyWxid, sessionInfo, call) ==
  IF preparing.ex THEN Caught(preparing)
  ELSE chatLabCollected(collectMessages(preparing.w, call.e, call.sessionId, cleanedMyWxid,
                                        call.options.dateRange),
                        sessionInfo, call)

\* exportSessionToChatLab from the answer of getContactInfo(sessionId).
chatLabSession(sessionInfo, cleanedMyWxid, call) ==
  IF sessionInfo.ex THEN Caught(sessionInfo)
  ELSE chatLabPreparing(report(sessionInfo.w, call.onProgress, 0, 100,
                               sessionInfo.v.displayName, "preparing"),
                        cleanedMyWxid, sessionInfo.v, call)

\* exportSessionToChatLab from the answer of ensureConnected.
chatLabConnected(conn, w, call) ==
  IF conn.ex THEN ExportFailed(w, ErrorThrown)
  ELSE IF ~conn.v.success \/ conn.v.cleanedWxid = <<>> THEN ExportFailed(w, conn.v.error)
  ELSE chatLabSession(getContactInfo(w, call.e, call.sessionId), conn.v.cleanedWxid, call)

exportSessionToChatLab(w, e, sessionId, outputPath, options, onProgress) ==
  chatLabConnected(ensureConnected(e), w,
                   ExportCall(e, sessionId, outputPath, options, onProgress))

\* getMessageTypeName
getMessageTypeName(localType) ==
  CASE localType = "1" -> <<"[text message]">>
    [] localType = "3" -> <<"[image message]">>
    [] localType = "34" -> <<"[voice message]">>
    [] localType = "42" -> <<"[card message]">>
    [] localType = "43" -> <<"[video message]">>
    [] localType = "47" -> <<"[animated emoji]">>
    [] localType = "48" -> <<"[location message]">>
    [] localType = "49" -> <<"[link message]">>
    [] localType = "50" -> <<"[call message]">>
    [] localType = "10000" -> <<"[system message]">>
    [] OTHER -> <<"[other message]">>

\* formatTimestamp, in a zone without offset: the day since the epoch
\* stands for the calendar date.
formatTimestamp(timestamp) ==
  [day |-> timestamp \div 86400,
   hours |-> (timestamp \div 3600) % 24,
   minutes |-> (timestamp \div 60) % 60,
   seconds |-> timestamp % 60]

\* The whole match of /<msgsource>[\s\S]*?<\/msgsource>/, or ''.
msgSource(content) ==
  LET m == FirstMatch(content, <<"<msgsource>">>, <<"</msgsource>">>, {})
  IN IF m.found THEN <<"<msgsource>">> \o m.cap \o <<"</msgsource>">> ELSE <<>>

\* One message of exportSessionToDetailedJson.
detailedMessage(localId, msg, senderInfo, content) ==
  [localId |-> localId,
   createTime |-> msg.createTime,
   formattedTime |-> formatTimestamp(msg.createTime),
   type |-> getMessageTypeName(msg.localType),
   localType |-> msg.localType,
   content |-> [null |-> content.null, v |-> content.v],
   isSend |-> IF msg.isSend THEN 1 ELSE 0,
   senderUsername |-> msg.senderUsername,
   senderDisplayName |-> senderInfo.displayName,
   source |-> msgSource(msg.content),
   senderAvatarKey |-> msg.senderUsername]

\* The message loop of exportSessionToDetailedJson; acc is [ex, w, out].
RECURSIVE detailedMessages(_, _, _, _)

\* The message loop once the content of the message is read.
detailedPush(acc, rows, senderInfo, content, e, options) ==
  IF content.ex THEN [acc EXCEPT !.ex = TRUE, !.w = senderInfo.w]
  ELSE detailedMessages(
         [ex |-> FALSE, w |-> senderInfo.w,
          out |-> Append(acc.out,
                         detailedMessage(Len(acc.out) + 1, Head(rows), senderInfo.v,
                                         content))],
         Tail(rows), e, options)

\* The message loop once the sender of the message is known.
detailedSender(acc, rows, senderInfo, e, options) ==
  IF senderInfo.ex THEN [acc EXCEPT !.ex = TRUE, !.w = senderInfo.w]
  ELSE detailedPush(acc, rows, senderInfo, summaryOf(Head(rows), e, options), e, options)

detailedMessages(acc, rows, e, options) ==
  IF rows = <<>> \/ acc.ex THEN acc
  ELSE detailedSender(acc, rows, getContactInfo(acc.w, e, Head(rows).senderUsername),
                      e, options)

\* The document of a detailed JSON export.
detailedExport(header, avatars, allMessages, name, lastTime, call) ==
  [kind |-> "json",
   value |-> Stringify(
     [chatlab |-> header.chatlab,
      meta |-> header.meta,
      session |-> Stringify(
        [wxid |-> call.sessionId,
         nickname |-> name,
         remark |-> name,
         displayName |-> name,
         type |-> IF call.isGroup THEN <<"[group chat]">> ELSE <<"[private chat]">>,
         lastTimestamp |-> lastTime,
         messageCount |-> Len(allMessages),
         avatar |-> MapAt(avatars, call.sessionId)],
        {"avatar"}),
      messages |-> allMessages,
      avatars |-> avatars],
     {"avatars"})]

\* exportSessionToDetailedJson from the progress event of phase 'writing'.
detailedWriting(writing, allMessages, collected, sessionInfo, call) ==
  IF writing.ex THEN Caught(writing)
  ELSE exportWritten(
         writeExport(writing.w,
                     detailedExport(getExportMeta(call.sessionId, sessionInfo, call.isGroup,
                                                  <<>>, call.e),
                                    avatarsOf(collected.memberSet, sessionInfo, call),
                                    allMessages, sessionInfo.displayName,
                                    collected.lastTime, call),
                     call),
         sessionInfo, collected.rows, call)

\* exportSessionToDetailedJson from the end of its message loop.
detailedMapped(mapped, collected, sessionInfo, call) ==
  IF mapped.ex THEN Caught(mapped)
  ELSE detailedWriting(report(mapped.w, call.onProgress, 70, 100, sessionInfo.displayName,
                              "writing"),
                       sortByCreateTime(mapped.out), collected, sessionInfo, call)

\* exportSessionToDetailedJson from the answer of collectMessages.
detailedCollected(collected, sessionInfo, call) ==
  IF collected.ex THEN Caught(collected)
  ELSE detailedMapped(detailedMessages([ex |-> FALSE, w |-> collected.w, out |-> <<>>],
                                       collected.rows, call.e, call.options),
                      collected, sessionInfo, call)

\* exportSessionToDetailedJson from the progress event of phase
\* 'preparing'.
detailedPreparing(preparing, cleanedMyWxid, sessionInfo, call) ==
  IF preparing.ex THEN Caught(preparing)
  ELSE detailedCollected(collectMessages(preparing.w, call.e, call.sessionId,
                                         cleanedMyWxid, call.options.dateRange),
                         sessionInfo, call)

\* exportSessionToDetailedJson from the answer of
\* getContactInfo(cleanedMyWxid).
detailedMine(myInfo, cleanedMyWxid, sessionInfo, call) ==
  IF myInfo.ex THEN Caught(myInfo)
  ELSE detailedPreparing(report(myInfo.w, call.onProgress, 0, 100,
                                sessionInfo.displayName, "preparing"),
                         cleanedMyWxid, sessionInfo, call)

\* exportSessionToDetailedJson from the answer of getContactInfo(sessionId).
detailedSession(sessionInfo, cleanedMyWxid, call) ==
  IF sessionInfo.ex THEN Caught(sessionInfo)
  ELSE detailedMine(getContactInfo(sessionInfo.w, call.e, cleanedMyWxid), cleanedMyWxid,
                    sessionInfo.v, call)

\* exportSessionToDetailedJson from the answer of ensureConnected.
detailedConnected(conn, w, call) ==
  IF conn.ex THEN ExportFailed(w, ErrorThrown)
  ELSE IF ~conn.v.success \/ conn.v.cleanedWxid = <<>> THEN ExportFailed(w, conn.v.error)
  ELSE detailedSession(getContactInfo(w, call.e, call.sessionId), conn.v.cleanedWxid, call)

exportSessionToDetailedJson(w, e, sessionId, outputPath, options, onProgress) ==
  detailedConnected(ensureConnected(e), w,
                    ExportCall(e, sessionId, outputPath, options, onProgress))

ErrorBusy == <<"[the file is open, close it and export again]">>

\* wcdbService.getContact: e.contact is [st, map], map[id] = [nickName,
\* remark]. The result is [found, nickName, remark].
getContact(e, id) ==
  IF e.contact.st = "ok" /\ id \in DOMAIN e.contact.map
  THEN [found |-> TRUE, nickName |-> e.contact.map[id].nickName,
        remark |-> e.contact.map[id].remark]
  ELSE [found |-> FALSE, nickName |-> <<>>, remark |-> <<>>]

\* `${msg.localType}_${msg.localId}`
mediaKeyOf(msg) == <<msg.localType, "_">> \o String(msg.localId)

\* mediaCache.set(mediaKey, mediaItem) after exportMediaForMessage.
cacheMedia(fresh, mediaCache, msg) ==
  [fs |-> fresh.fs, v |-> fresh.v,
   mediaCache |-> (mediaKeyOf(msg) :> fresh.v) @@ mediaCache, called |-> TRUE]

\* A media loop without cache: every message goes to exportMediaForMessage.
cachedMedia_NoCache(fs, mediaCache, msg, sessionId, sessionDir, options, e) ==
  IF ~(options.exportImages \/ options.exportVoices \/ options.exportEmojis)
    THEN [fs |-> fs, v |-> NullItem, mediaCache |-> mediaCache, called |-> FALSE]
  ELSE cacheMedia(exportMediaForMessage(fs, msg, sessionId, sessionDir, options, e.media),
                  mediaCache, msg)

\* The media of a message in the Excel export, through the cache of the
\* run: [fs, v, mediaCache, called], called telling whether
\* exportMediaForMessage was called.
cachedMedia(fs, mediaCache, msg, sessionId, sessionDir, options, e) ==
  IF ~(options.exportImages \/ options.exportVoices \/ options.exportEmojis)
    THEN [fs |-> fs, v |-> NullItem, mediaCache |-> mediaCache, called |-> FALSE]
  ELSE IF mediaKeyOf(msg) \in DOMAIN mediaCache
    THEN [fs |-> fs, v |-> mediaCache[mediaKeyOf(msg)], mediaCache |-> mediaCache,
          called |-> FALSE]
  ELSE cacheMedia(exportMediaForMessage(fs, msg, sessionId, sessionDir, options, e.media),
                  mediaCache, msg)

\* The identifier whose contact the Excel export asks for a received message.
contactOf(msg, sessionId, isGroup) ==
  IF isGroup /\ msg.senderUsername # <<>> THEN msg.senderUsername ELSE sessionId

\* Who sent a message, as the Excel export names them:
\* [senderRole, senderWxid, senderNickname, senderRemark].
excelSender(msg, e, sessionId, isGroup, cleanedMyWxid, myInfo, sessionInfo) ==
  LET who == contactOf(msg, sessionId, isGroup)
      contactDetail == getContact(e, who)
      nickName == Or(contactDetail.nickName, who)
  IN IF msg.isSend
       THEN [senderRole |-> <<"[me]">>, senderWxid |-> cleanedMyWxid,
             senderNickname |-> Or(myInfo.displayName, cleanedMyWxid),
             senderRemark |-> <<>>]
     ELSE IF contactDetail.found
       THEN [senderRole |-> Or(contactDetail.remark, nickName), senderWxid |-> who,
             senderNickname |-> nickName, senderRemark |-> contactDetail.remark]
     ELSE IF isGroup /\ msg.senderUsername # <<>>
       THEN [senderRole |-> who, senderWxid |-> who,
             senderNickname |-> who, senderRemark |-> <<>>]
     ELSE [senderRole |-> Or(sessionInfo.displayName, sessionId), senderWxid |-> who,
           senderNickname |-> Or(sessionInfo.displayName, sessionId),
           senderRemark |-> <<>>]

\* The cells of one row of the sheet.
excelRow(index, msg, sender, contentValue, options) ==
  IF options.excelCompactColumns
  THEN << index, formatTimestamp(msg.createTime), sender.senderRole,
          getMessageTypeName(msg.localType), contentValue >>
  ELSE << index, formatTimestamp(msg.createTime), sender.senderNickname,
          sender.senderWxid, sender.senderRemark, sender.senderRole,
          getMessageTypeName(msg.localType), contentValue >>

\* The content cell of a row without exported media: the transcript of a
\* voice message, or else the parsed content.
excelParsed(parsed, msg, e, options) ==
  IF parsed.ex THEN Thrown
  ELSE IF msg.localType = "34" /\ options.exportVoiceAsText THEN Str(transcribeVoice(e))
  ELSE parsed

\* The content cell of a row: the path of the exported media, or else the
\* text of the message.
excelContent(mediaItem, msg, e, options) ==
  IF mediaItem # NullItem THEN Str(mediaItem.relativePath)
  ELSE excelParsed(parseMessageContent(msg.content, msg.localType), msg, e, options)

\* The message loop of exportSessionToExcel; acc is [ex, w, out, mediaCache]
\* and c holds the values the loop reads: sessionId, sessionDir, isGroup,
\* cleanedMyWxid, myInfo, sessionInfo, total, onProgress.
RECURSIVE excelRows(_, _, _, _, _)

\* The message loop once the progress of the row is reported.
excelReported(acc, rows, reported, row, mediaCache, e, options, c) ==
  IF reported.ex THEN [acc EXCEPT !.ex = TRUE, !.w = reported.w]
  ELSE excelRows([ex |-> FALSE, w |-> reported.w, out |-> Append(acc.out, row),
                  mediaCache |-> mediaCache],
                 Tail(rows), e, options, c)

\* The Excel export reports its progress once in so many rows.
ProgressEvery == 100

\* 30 + Math.floor(done / total * 50)
excelProgress(done, total) == 30 + (done * 50) \div total

\* The message loop once the content cell of the row is read: afterMedia
\* is the world after the media export of the row.
excelFilled(acc, rows, afterMedia, contentValue, mediaCache, e, options, c) ==
  IF contentValue.ex THEN [acc EXCEPT !.ex = TRUE, !.w = afterMedia]
  ELSE excelReported(acc, rows,
                     IF (Len(acc.out) + 1) % ProgressEvery = 0
                     THEN report(afterMedia, c.onProgress,
                                 excelProgress(Len(acc.out) + 1, c.total), 100,
                                 c.sessionInfo.displayName, "exporting")
                     ELSE [ex |-> FALSE, w |-> afterMedia],
                     excelRow(Len(acc.out) + 1, Head(rows),
                              excelSender(Head(rows), e, c.sessionId, c.isGroup,
                                          c.cleanedMyWxid, c.myInfo, c.sessionInfo),
                              contentValue.v, options),
                     mediaCache, e, options, c)

\* The message loop once the media of the row is exported.
excelMedia(acc, rows, media, afterMedia, e, options, c) ==
  IF ~Head(rows).isSend /\ e.contact.st = "throw"
    THEN [acc EXCEPT !.ex = TRUE, !.w = afterMedia]
  ELSE excelFilled(acc, rows, afterMedia, excelContent(media.v, Head(rows), e, options),
                   media.mediaCache, e, options, c)

\* The message loop from the media of the row.
excelCached(acc, rows, media, e, options, c) ==
  excelMedia(acc, rows, media,
             [acc.w EXCEPT !.fs = media.fs,
                           !.media = IF media.called THEN Append(@, Head(rows)) ELSE @,
                           !.asked = IF Head(rows).isSend THEN @
                                     ELSE Append(@, [fn |-> "getContact",
                                                     ids |-> {contactOf(Head(rows), c.sessionId,
                                                                        c.isGroup)}])],
             e, options, c)

excelRows(acc, rows, e, options, c) ==
  IF rows = <<>> \/ acc.ex THEN acc
  ELSE excelCached(acc, rows,
                   cachedMedia(acc.w.fs, acc.mediaCache, Head(rows), c.sessionId,
                               c.sessionDir, options, e),
                   e, options, c)

\* The rows above the table: the conversation and the export.
excelInfo(sessionContact, header, call) ==
  << <<"[session information]">>,
     << <<"[account id]">>, call.sessionId, <<"[nickname]">>,
        Or(sessionContact.nickName, call.sessionId) >>
       \o (IF call.isGroup THEN << <<"[remark]">>, sessionContact.remark >> ELSE <<>>),
     << <<"[export tool]">>, header.chatlab.generator,
        <<"[export version]">>, header.chatlab.version,
        <<"[platform]">>, header.meta.platform,
        <<"[export time]">>, formatTimestamp(header.chatlab.exportedAt) >> >>

excelHeaders(options) ==
  IF options.excelCompactColumns
  THEN << <<"[index]">>, <<"[time]">>, <<"[sender role]">>,
          <<"[message type]">>, <<"[content]">> >>
  ELSE << <<"[index]">>, <<"[time]">>, <<"[sender nickname]">>,
          <<"[sender account id]">>, <<"[sender remark]">>,
          <<"[sender role]">>, <<"[message type]">>, <<"[content]">> >>

\* The workbook of an Excel export.
excelWorkbook(sessionContact, sessionInfo, rows, call) ==
  [kind |-> "xlsx",
   info |-> excelInfo(sessionContact,
                      getExportMeta(call.sessionId, sessionInfo, call.isGroup, <<>>, call.e),
                      call),
   headers |-> excelHeaders(call.options),
   rows |-> rows]

\* exportSessionToExcel from the progress event of phase 'writing': a file
\* that is open elsewhere ends the export in the EBUSY branch of its catch.
excelWriting(writing, rows, sessionContact, sessionInfo, fetched, call) ==
  IF writing.ex THEN Caught(writing)
  ELSE IF call.e.sessions[call.sessionId].write = "busy"
    THEN ExportFailed(writing.w, ErrorBusy)
  ELSE exportWritten(writeExport(writing.w,
                                 excelWorkbook(sessionContact, sessionInfo, rows, call),
                                 call),
                     sessionInfo, fetched, call)

\* exportSessionToExcel from the end of its message loop.
excelMapped(filled, sessionContact, sessionInfo, fetched, call) ==
  IF filled.ex THEN Caught(filled)
  ELSE excelWriting(report(filled.w, call.onProgress, 90, 100, sessionInfo.displayName,
                           "writing"),
                    filled.out, sessionContact, sessionInfo, fetched, call)

\* exportSessionToExcel from the progress event of phase 'exporting'.
excelExporting(exporting, fetched, cleanedMyWxid, sessionContact, myInfo, sessionInfo, call) ==
  IF exporting.ex THEN Caught(exporting)
  ELSE excelMapped(excelRows([ex |-> FALSE, w |-> exporting.w, out |-> <<>>,
                              mediaCache |-> <<>>],
                             sortByCreateTime(fetched), call.e, call.options,
                             [sessionId |-> call.sessionId,
                              sessionDir |-> dirname(call.outputPath),
                              isGroup |-> call.isGroup, cleanedMyWxid |-> cleanedMyWxid,
                              myInfo |-> myInfo, sessionInfo |-> sessionInfo,
                              total |-> Len(fetched), onProgress |-> call.onProgress]),
                   sessionContact, sessionInfo, fetched, call)

\* exportSessionToExcel from the answer of collectMessages.
excelCollected(collected, cleanedMyWxid, sessionContact, myInfo, sessionInfo, call) ==
  IF collected.ex THEN Caught(collected)
  ELSE excelExporting(report(collected.w, call.onProgress, 30, 100,
                             sessionInfo.displayName, "exporting"),
                      collected.rows, cleanedMyWxid, sessionContact, myInfo, sessionInfo,
                      call)

\* exportSessionToExcel from the progress event of phase 'preparing'.
excelPreparing(preparing, cleanedMyWxid, sessionContact, myInfo, sessionInfo, call) ==
  IF preparing.ex THEN Caught(preparing)
  ELSE excelCollected(collectMessages(preparing.w, call.e, call.sessionId, cleanedMyWxid,
                                      call.options.dateRange),
                      cleanedMyWxid, sessionContact, myInfo, sessionInfo, call)

\* exportSessionToExcel from the answer of getContactInfo(cleanedMyWxid):
\* wcdbService.getContact(sessionId), then the first progress event.
excelMine(myInfo, cleanedMyWxid, sessionInfo, call) ==
  IF myInfo.ex THEN Caught(myInfo)
  ELSE IF call.e.contact.st = "throw"
    THEN Caught([myInfo EXCEPT !.w = Asking(@, "getContact", {call.sessionId})])
  ELSE excelPreparing(report(Asking(myInfo.w, "getContact", {call.sessionId}),
                             call.onProgress, 0, 100, sessionInfo.displayName,
                             "preparing"),
                      cleanedMyWxid, getContact(call.e, call.sessionId), myInfo.v,
                      sessionInfo, call)

\* exportSessionToExcel from the answer of getContactInfo(sessionId).
excelSession(sessionInfo, cleanedMyWxid, call) ==
  IF sessionInfo.ex THEN Caught(sessionInfo)
  ELSE excelMine(getContactInfo(sessionInfo.w, call.e, cleanedMyWxid), cleanedMyWxid,
                 sessionInfo.v, call)

\* exportSessionToExcel from the answer of ensureConnected.
excelConnected(conn, w, call) ==
  IF conn.ex THEN ExportFailed(w, ErrorThrown)
  ELSE IF ~conn.v.success \/ conn.v.cleanedWxid = <<>> THEN ExportFailed(w, conn.v.error)
  ELSE excelSession(getContactInfo(w, call.e, call.sessionId), conn.v.cleanedWxid, call)

\* e.message.includes('EBUSY') || ... 'resource busy' || ... 'locked'
busySignature(message) ==
  \/ Includes(message, <<"EBUSY">>)
  \/ Includes(message, <<"resource busy">>)
  \/ Includes(message, <<"locked">>)

\* The catch of exportSessionToExcel: an exception whose message holds the
\* signature of a busy file is answered with the hint to close the file.
excelCatch(out, e) ==
  IF ~out.v.success /\ out.v.error = ErrorThrown /\ busySignature(e.thrown)
    THEN ExportFailed(out.w, ErrorBusy)
  ELSE out

exportSessionToExcel(w, e, sessionId, outputPath, options, onProgress) ==
  excelCatch(excelConnected(ensureConnected(e), w,
                            ExportCall(e, sessionId, outputPath, options, onProgress)),
             e)

(***************************************************************************)
(* 4.6 Batch export                                                        *)
(*                                                                         *)
(* exportSessions runs as three kinds of step: its start (the connection   *)
(* check and the output folder), one turn of its loop per conversation,    *)
(* and its end. b is its frame: [pc, i, successCount, failCount, w,        *)
(* attempted, outcomes, result]; attempted lists the conversations whose   *)
(* export was called and outcomes what each call returned.                 *)
(***************************************************************************)
\* displayName.replace(/[<>:"/\\|?*]/g, '_')
safeNameOf(displayName) ==
  [i \in 1..Len(displayName) |->
     IF displayName[i] \in {"<", ">", ":", "\"", "/", "\\", "|", "?", "*"}
     THEN "_" ELSE displayName[i]]

extensionOf(format) ==
  IF format = "chatlab-jsonl" THEN <<".jsonl">>
  ELSE IF format = "excel" THEN <<".xlsx">>
  ELSE <<".json">>

ErrorFormat == <<"[unsupported format]">>

\* The export that exportSessions calls for a format, without onProgress.
exportByFormat(w, e, sessionId, outputPath, options) ==
  IF options.format = "json"
    THEN exportSessionToDetailedJson(w, e, sessionId, outputPath, options, "none")
  ELSE IF options.format \in {"chatlab", "chatlab-jsonl"}
    THEN exportSessionToChatLab(w, e, sessionId, outputPath, options, "none")
  ELSE IF options.format = "excel"
    THEN exportSessionToExcel(w, e, sessionId, outputPath, options, "none")
  ELSE ExportFailed(w, ErrorFormat \o <<options.format>>)

BatchResult(success, b, error) ==
  [success |-> success, successCount |-> b.successCount, failCount |-> b.failCount,
   error |-> error]

\* The catch of exportSessions.
batchCaught(b, w) ==
  [b EXCEPT !.pc = "returned", !.w = w, !.result = BatchResult(FALSE, b, ErrorThrown)]

\* exportSessions from the answer of ensureConnected to the loop.
batchConnected(b, conn, e, sessionIds, outputDir) ==
  IF conn.ex THEN batchCaught(b, b.w)
  ELSE IF ~conn.v.success
    THEN [b EXCEPT !.pc = "returned",
                   !.result = [success |-> FALSE, successCount |-> 0,
                               failCount |-> Len(sessionIds), error |-> conn.v.error]]
  ELSE IF ~existsSync(b.w.fs, outputDir) /\ e.mkdirOutput # "ok" THEN batchCaught(b, b.w)
  ELSE [b EXCEPT !.pc = "loop", !.i = 1,
                 !.w.fs = IF ~existsSync(@, outputDir) THEN mkdirSync(@, outputDir) ELSE @]

\* From the entry of exportSessions to the loop.
batchStart(b, e, sessionIds, outputDir) ==
  batchConnected(b, ensureConnected(e), e, sessionIds, outputDir)

\* What one turn of the loop keeps of the export it called.
batchCount(b, sessionId, exported) ==
  [b EXCEPT !.i = @ + 1,
            !.w = exported.w,
            !.attempted = Append(@, sessionId),
            !.outcomes = Append(@, exported.v),
            !.successCount = IF exported.v.success THEN @ + 1 ELSE @,
            !.failCount = IF exported.v.success THEN @ ELSE @ + 1]

\* One turn of the loop from the folder of the conversation on.
batchExport(b, w, e, sessionId, sessionDir, safeName, options) ==
  IF ~existsSync(w.fs, sessionDir) /\ e.sessions[sessionId].mkdir # "ok"
    THEN batchCaught(b, w)
  ELSE batchCount(b, sessionId,
                  exportByFormat(IF existsSync(w.fs, sessionDir) THEN w
                                 ELSE [w EXCEPT !.fs = mkdirSync(@, sessionDir)],
                                 e, sessionId,
                                 Append(sessionDir, safeName \o extensionOf(options.format)),
                                 options))

\* One turn of the loop from its progress event on.
batchReported(b, reported, e, sessionId, outputDir, safeName, options) ==
  IF reported.ex THEN batchCaught(b, reported.w)
  ELSE batchExport(b, reported.w, e, sessionId, Append(outputDir, safeName), safeName,
                   options)

\* One turn of the loop from the answer of getContactInfo(sessionId).
batchSession(b, sessionInfo, e, sessionIds, outputDir, options, onProgress) ==
  IF sessionInfo.ex THEN batchCaught(b, sessionInfo.w)
  ELSE batchReported(b,
                     report(sessionInfo.w, onProgress, b.i, Len(sessionIds),
                            sessionInfo.v.displayName, "exporting"),
                     e, sessionIds[b.i], outputDir, safeNameOf(sessionInfo.v.displayName),
                     options)

\* One turn of the loop of exportSessions.
batchTurn(b, e, sessionIds, outputDir, options, onProgress) ==
  batchSession(b, getContactInfo(b.w, e, sessionIds[b.i]), e, sessionIds, outputDir,
               options, onProgress)

\* exportSessions from its last progress event on.
batchComplete(b, reported) ==
  IF reported.ex THEN batchCaught(b, reported.w)
  ELSE [b EXCEPT !.pc = "returned", !.w = reported.w,
                 !.result = BatchResult(TRUE, b, <<>>)]

\* After the loop: the last progress event and the result.
batchEnd(b, sessionIds, onProgress) ==
  batchComplete(b, report(b.w, onProgress, Len(sessionIds), Len(sessionIds), <<>>,
                          "complete"))
(***************************************************************************)
(* The value of each variable while its part of the pipeline is not run    *)
(***************************************************************************)
DecIdle == [phase |-> "idle", messageContent |-> NullRaw,
            compressContent |-> NullRaw, zstd |-> [ok |-> FALSE, text |-> <<>>],
            result |-> Ret(<<>>)]

ParIdle == [phase |-> "idle", content |-> <<>>, localType |-> "1",
            result |-> Null, type |-> 0]

NoNames == <<>>

MrgIdle == [phase |-> "idle", before |-> <<>>, includeAvatars |-> FALSE,
            roster |-> [st |-> "fail", members |-> <<>>],
            names |-> [st |-> "fail", map |-> NoNames],
            avatars |-> [st |-> "fail", map |-> NoNames],
            result |-> Ret(<<>>)]

ExpIdle == [phase |-> "idle"]

BatIdle == [pc |-> "idle"]

NoServer == <<>>

NetIdle ==
  [pc |-> "idle", fn |-> "downloadFile", url |-> <<>>, remainingRedirects |-> 0,
   requests |-> 0, server |-> NoServer, result |-> "none", file |-> "none"]

\* No call of the media extractor yet.
NoCall ==
  [msg |-> <<>>, before |-> {}, wrote |-> {}, v |-> NullItem,
   options |-> [exportImages |-> FALSE, exportVoices |-> FALSE, exportEmojis |-> FALSE,
                exportVoiceAsText |-> FALSE],
   env |-> [decrypt |-> [st |-> "fail", localPath |-> <<>>],
            thumb |-> [st |-> "fail", localPath |-> <<>>], cacheFiles |-> {},
            voice |-> [st |-> "fail", data |-> <<>>], http |-> <<>>, disk |-> "ok"]]

MedIdle == [fs |-> EmptyDisk, calls |-> 0, last |-> NoCall]

(***************************************************************************)
(* Inputs of the decoder                                                   *)
(***************************************************************************)
MaxRawLen == 2

DecAlphabet == {"4", "1", "F", "g", "<"}

DecSamples ==
  { <<"4","1","4">>,
    <<"g","g","g","g">>,
    <<"g","g","=","=">>,
    <<"=","=","=","=">>,
    <<"2","8","B","5","2","F","F">>,
    <<"2","8","B","5","2","F","F","D">>,
    <<"2","8","B","5","2","F","F","D","0","0">>,
    <<"K","L","U","v","/","Q","=","=">>,
    <<"K","L","U","v","/","Q","A","A">>,
    <<"4","1","4","1","4","1","4","1","F","F">>,
    <<"4","1","4","1","4","1","4","1","4","1","F","F">>,
    <<"C","3","A","9">>,
    <<"E","4","B","8","A","D">>,
    <<"E","4","B","8">> }

RawStrings == SeqsUpTo(DecAlphabet, MaxRawLen) \cup DecSamples

RawValues == {NullRaw, BufferRaw} \cup {StringRaw(s) : s \in RawStrings}

ZstdOutcomes ==
  { [ok |-> FALSE, text |-> <<>>],
    [ok |-> TRUE, text |-> <<"a">>],
    [ok |-> TRUE, text |-> <<>>] }

DecInit ==
  /\ dec \in [phase : {"input"}, messageContent : RawValues,
              compressContent : RawValues, zstd : ZstdOutcomes,
              result : {Ret(<<>>)}]
  /\ par = ParIdle
  /\ mrg = MrgIdle
  /\ exp = ExpIdle
  /\ bat = BatIdle
  /\ med = MedIdle
  /\ net = NetIdle

DecodeMessageContent ==
  /\ dec.phase = "input"
  /\ dec' = [dec EXCEPT !.phase = "done",
               !.result = decodeMessageContent(dec.messageContent,
                                               dec.compressContent, dec.zstd)]
  /\ UNCHANGED <<par, mrg, exp, bat, med, net>>

(***************************************************************************)
(* Inputs of the parser                                                    *)
(***************************************************************************)
MaxContentLen == 2

MaxVarLen == 1

ParAlphabet == {"a", " ", ":", "/", "<title>", "</title>", "<img>", "${"}

LocalTypes ==
  {"1", "3", "34", "42", "43", "47", "48", "49", "50", "10000", PatLocalType, "99"}

VarNames == SeqsUpTo({"u", "(", "a"}, MaxVarLen) \ {<<>>}

\* A pat ("nudge") system message whose template names one variable.
PatContent(varName) ==
  <<"<sysmsg>", "<template>", "<![CDATA[", "a", "${">> \o varName
    \o <<"}", "]]>", "</template>", "<u>", "<![CDATA[", "A", "]]>", "</u>", "</sysmsg>">>

VoipContent(status, room) ==
  <<"<msg>", "<![CDATA[">> \o status \o <<"]]>", "</msg>">> \o room

RoomType(ds) == <<"<room_type>">> \o ds \o <<"</room_type>">>

VoipStatuses ==
  { PhraseDuration \o <<" ", "0", "1", ":", "2", "3">>,
    PhraseDuration \o <<"1", ":", "2", "3", ":", "4", "5">>,
    PhraseDuration,
    PhraseNoAnswer, PhraseCancelled, PhraseOtherDeviceA, PhrasePeerDeclined,
    PhraseDeclined, PhraseBusyMissed, PhraseBusy, PhraseMissed,
    PhraseMissed \o <<" ">> \o PhraseCancelled,
    PhraseDeclined \o <<" ">> \o PhraseNoAnswer,
    <<" ">> \o PhraseOtherDeviceB \o <<" ">>,
    <<"a">>, <<>> }

VoipRooms == {RoomType(<<"0">>), RoomType(<<"1">>), RoomType(<<"2">>), <<>>}

LinkContent(subType, title) ==
  (IF subType = <<>> THEN <<>> ELSE <<"<type>">> \o subType \o <<"</type>">>) \o title

Titled(t) == <<"<title>">> \o t \o <<"</title>">>

LinkSubTypes ==
  {<<"6">>, <<"3", "3">>, <<"3", "6">>, <<"5", "7">>, <<"5">>, <<"0", "6">>, <<"a">>, <<>>}

LinkTitles ==
  {Titled(<<"a">>), Titled(<<" ", "<![CDATA[", "a", "]]>", " ">>), Titled(<<>>), <<>>}

SystemSamples ==
  { <<"<sysmsg>", "<replacemsg>", "<![CDATA[", " ", "a", "]]>", "</replacemsg>", "</sysmsg>">>,
    <<"<img>", "a", " ", "\n", "<u>", "a", "</u>">>,
    <<"<u>", "</u>">>,
    <<"<template>", "<![CDATA[", "${", "}", "a", "]]>", "</template>">> }

ParContents ==
  SeqsUpTo(ParAlphabet, MaxContentLen)
    \cup {PatContent(n) : n \in VarNames}
    \cup {VoipContent(st, r) : st \in VoipStatuses, r \in VoipRooms}
    \cup {LinkContent(t, ti) : t \in LinkSubTypes, ti \in LinkTitles}
    \cup SystemSamples

ParInit ==
  /\ par \in [phase : {"input"}, content : ParContents, localType : LocalTypes,
              result : {Null}, type : {0}]
  /\ dec = DecIdle
  /\ mrg = MrgIdle
  /\ exp = ExpIdle
  /\ bat = BatIdle
  /\ med = MedIdle
  /\ net = NetIdle

\* One message of the export loop: its summary and its type tag.
ParseMessageContent ==
  /\ par.phase = "input"
  /\ par' = [par EXCEPT !.phase = "done",
               !.result = parseMessageContent(par.content, par.localType),
               !.type = convertMessageType(par.localType, par.content)]
  /\ UNCHANGED <<dec, mrg, exp, bat, med, net>>

(***************************************************************************)
(* Inputs of the roster merge                                              *)
(***************************************************************************)
MaxRoster == 2

IdA == <<"a">>

\* IdA with a device suffix: cleanAccountDirName gives IdA.
IdASuffixed == <<"a", "_", "1", "2", "3", "4">>

IdU == <<"u">>

NameAlice == <<"A", "l">>

NameOther == <<"Z">>

\* What getDisplayNames may hold for the identifiers of a roster.
NameMaps ==
  { NoNames,
    (IdA :> NameOther) @@ (IdU :> NameOther) @@ (IdASuffixed :> NameOther),
    (IdA :> NameOther),
    (IdA :> IdA) @@ (IdU :> <<>>) }

NameAnswers ==
  {[st |-> "ok", map |-> m] : m \in NameMaps}
    \cup {[st |-> "fail", map |-> NoNames], [st |-> "throw", map |-> NoNames]}

AvatarAnswers ==
  { [st |-> "ok", map |-> (IdA :> <<"h">>)],
    [st |-> "fail", map |-> NoNames] }

RosterMember(username, nickname, remark) ==
  [username |-> username, avatarUrl |-> <<>>, nickname |-> nickname,
   displayName |-> <<>>, remark |-> remark, originalName |-> <<>>]

RosterMembers ==
  {RosterMember(u, n, <<>>) : u \in {IdA, IdASuffixed, IdU, <<>>}, n \in {<<>>, <<"n">>}}
    \cup {RosterMember(IdA, <<>>, <<"r">>)}

RosterAnswers ==
  {[st |-> "ok", members |-> ms] : ms \in SeqsUpTo(RosterMembers, MaxRoster)}
    \cup {[st |-> "fail", members |-> <<>>], [st |-> "throw", members |-> <<>>]}

\* A member as collectMessages creates it from a sender.
SenderMember(id, accountName, avatarUrl) ==
  [key |-> id, platformId |-> id, accountName |-> accountName,
   groupNickname |-> <<>>, avatarUrl |-> avatarUrl]

MemberSets ==
  { <<>>,
    <<SenderMember(IdA, NameAlice, <<>>)>>,
    <<SenderMember(IdA, IdA, <<>>)>>,
    <<SenderMember(IdA, NameAlice, <<"g">>), SenderMember(IdU, IdU, <<>>)>>,
    <<SenderMember(IdU, NameAlice, <<>>), SenderMember(IdA, IdA, <<"g">>)>>,
    <<SenderMember(IdASuffixed, NameAlice, <<>>), SenderMember(IdA, IdA, <<>>)>> }

MrgInit ==
  /\ mrg \in [phase : {"input"}, before : MemberSets, includeAvatars : BOOLEAN,
              roster : RosterAnswers, names : NameAnswers, avatars : AvatarAnswers,
              result : {Ret(<<>>)}]
  /\ dec = DecIdle
  /\ par = ParIdle
  /\ exp = ExpIdle
  /\ bat = BatIdle
  /\ med = MedIdle
  /\ net = NetIdle

MergeGroupMembers ==
  /\ mrg.phase = "input"
  /\ mrg' = [mrg EXCEPT !.phase = "done",
               !.result = mergeGroupMembers(mrg.before, mrg.includeAvatars,
                                            mrg.roster, mrg.names, mrg.avatars)]
  /\ UNCHANGED <<dec, par, exp, bat, med, net>>

(***************************************************************************)
(* Inputs of the media extractor                                           *)
(***************************************************************************)
MaxMediaCalls == 2

MediaDir == << <<"out">> >>

\* A message as collectMessages builds it.
Message(localType, localId, createTime, content, senderUsername, isSend) ==
  [localId |-> localId, createTime |-> createTime, localType |-> localType,
   content |-> content, senderUsername |-> senderUsername, isSend |-> isSend,
   imageMd5 |-> <<>>, imageDatName |-> <<>>, emojiCdnUrl |-> <<>>, emojiMd5 |-> <<>>]

ImageMessage(localId, imageMd5) ==
  [Message("3", localId, 1, <<"<img>">>, <<"a">>, FALSE) EXCEPT !.imageMd5 = imageMd5]

VoiceMessage(localId) == Message("34", localId, 1, <<"<voicemsg>">>, <<"a">>, FALSE)

EmojiMessage(localId, emojiMd5, emojiCdnUrl) ==
  [Message("47", localId, 1, <<"<emoji>">>, <<"a">>, FALSE)
     EXCEPT !.emojiMd5 = emojiMd5, !.emojiCdnUrl = emojiCdnUrl]

EmojiUrl == <<"http://", "e", ".png">>

MediaMessages ==
  { ImageMessage(1, <<"m">>),
    ImageMessage(2, <<>>),
    VoiceMessage(3),
    EmojiMessage(4, <<"k">>, EmojiUrl),
    EmojiMessage(5, <<"k">>, <<>>),
    Message("1", 6, 1, <<"h", "i">>, <<"a">>, FALSE) }

DataUrl(mime) == <<"data:", mime, ";base64", ",", "Q", "Q", "=", "=">>

CachedImage == <<"/cache/", "m", ".png">>

NoAnswer == [st |-> "fail", localPath |-> <<>>]

NoVoice == [st |-> "fail", data |-> <<>>]

Response(statusCode, location, stream) ==
  [statusCode |-> statusCode, location |-> location, stream |-> stream, body |-> <<"G">>]

\* Nothing can be extracted: every collaborator refuses.
NoMedia ==
  [decrypt |-> NoAnswer, thumb |-> NoAnswer, cacheFiles |-> {}, voice |-> NoVoice,
   http |-> <<>>, disk |-> "ok"]

MediaEnvs ==
  { NoMedia,
    [NoMedia EXCEPT !.decrypt = [st |-> "ok", localPath |-> DataUrl("image/png")],
                    !.voice = [st |-> "ok", data |-> <<"Q", "Q", "=", "=">>],
                    !.http = <<Response(200, <<>>, "finish")>>],
    [NoMedia EXCEPT !.decrypt = [st |-> "ok", localPath |-> <<"file://">> \o CachedImage],
                    !.cacheFiles = {CachedImage},
                    !.http = <<Response(302, EmojiUrl, "finish"),
                               Response(200, <<>>, "finish")>>],
    [NoMedia EXCEPT !.decrypt = [st |-> "throw", localPath |-> <<>>],
                    !.voice = [st |-> "ok", data |-> <<>>],
                    !.http = <<Response(404, <<>>, "finish")>>],
    [NoMedia EXCEPT !.thumb = [st |-> "ok", localPath |-> DataUrl("image/jpeg")],
                    !.http = <<Response(200, <<>>, "error")>>],
    [NoMedia EXCEPT !.thumb = [st |-> "throw", localPath |-> <<>>],
                    !.voice = [st |-> "throw", data |-> <<>>],
                    !.http = <<Response(302, EmojiUrl, "finish")>>],
    [NoMedia EXCEPT !.decrypt = [st |-> "ok", localPath |-> DataUrl("image/png")],
                    !.voice = [st |-> "ok", data |-> <<"Q", "Q", "=", "=">>],
                    !.http = <<Response(200, <<>>, "finish")>>,
                    !.disk = "throw"] }

MediaOptions ==
  { [exportImages |-> TRUE, exportVoices |-> TRUE, exportEmojis |-> TRUE,
     exportVoiceAsText |-> FALSE],
    [exportImages |-> FALSE, exportVoices |-> TRUE, exportEmojis |-> FALSE,
     exportVoiceAsText |-> TRUE] }

MedInit ==
  /\ med = MedIdle
  /\ dec = DecIdle
  /\ par = ParIdle
  /\ mrg = MrgIdle
  /\ exp = ExpIdle
  /\ bat = BatIdle
  /\ net = NetIdle

\* One message goes through exportMediaForMessage, into the directory that
\* earlier messages and earlier runs have filled.
ExportMediaForMessage ==
  /\ med.calls < MaxMediaCalls
  /\ \E msg \in MediaMessages, options \in MediaOptions, env \in MediaEnvs :
       LET r == exportMediaForMessage([med.fs EXCEPT !.writes = <<>>], msg, <<"a">>,
                                      MediaDir, options, env)
       IN med' = [fs |-> r.fs, calls |-> med.calls + 1,
                  last |-> [msg |-> msg, before |-> DOMAIN med.fs.files,
                            wrote |-> {r.fs.writes[i] : i \in 1..Len(r.fs.writes)},
                            v |-> r.v, options |-> options, env |-> env]]
  /\ UNCHANGED <<dec, par, mrg, exp, bat, net>>

(***************************************************************************)
(* Inputs of the exports                                                   *)
(***************************************************************************)
MaxRows == 3

MaxSessions == 3

IdMe == <<"m">>

IdGroup == <<"g", "@chatroom">>

OutputDir == << <<"out">> >>

OutputPath == << <<"out">>, <<"chat">> >>

\* A row of the message table.
Row(create_time, local_type, content, sender_username, is_send, local_id) ==
  [create_time |-> create_time, message_content |-> StringRaw(content),
   compress_content |-> NullRaw, local_type |-> local_type, type |-> "",
   sender_username |-> sender_username, computed_is_send |-> <<>>,
   is_send |-> is_send, local_id |-> local_id]

\* A row whose compressed payload has the zstd magic and does not
\* decompress, and that has no plain payload.
CorruptRow ==
  [Row(<<"3">>, "1", <<>>, <<>>, <<"0">>, <<"5">>)
     EXCEPT !.message_content = NullRaw,
            !.compress_content = StringRaw(<<"2", "8", "b", "5", "2", "f", "f", "d">>)]

\* A pat message whose template names a variable that is no valid pattern.
MalformedPatRow == Row(<<"2">>, "10000", PatContent(<<"(">>), IdU, <<"0">>, <<"4">>)

RowPool ==
  { Row(<<"2">>, "1", <<"h", "i">>, IdA, <<"0">>, <<"1">>),
    Row(<<"1">>, "1", <<"y", "o">>, IdU, <<"0">>, <<"2">>),
    Row(<<"1">>, "34", <<"<voicemsg>">>, <<>>, <<"1">>, <<"3">>),
    Row(<<"1">>, "10000", PatContent(<<"u">>), IdA, <<"0">>, <<"6">>),
    CorruptRow }

\* The rows of a cursor in batches of two.
RECURSIVE Batches(_)
Batches(rows) ==
  IF Len(rows) <= 2 THEN << [st |-> "ok", rows |-> rows, hasMore |-> FALSE] >>
  ELSE << [st |-> "ok", rows |-> SubSeq(rows, 1, 2), hasMore |-> TRUE] >>
         \o Batches(SubSeq(rows, 3, Len(rows)))

Session(cursor, rows, write, mkdir) ==
  [cursor |-> cursor, batches |-> Batches(rows), write |-> write, mkdir |-> mkdir,
   roster |-> [st |-> "ok",
               members |-> << RosterMember(IdA, <<"n">>, <<>>),
                              RosterMember(IdU, <<>>, <<>>) >>]]

SessionIds == {IdA, IdU, IdGroup}

GoodConfig == [myWxid |-> IdMe, dbPath |-> <<"/db">>, decryptKey |-> <<"k">>]

\* The lookups answer, with no name for IdU and an empty one for IdMe.
SomeNames == [st |-> "ok", map |-> (IdA :> NameAlice) @@ (IdMe :> <<>>)]

\* The message of the exceptions that the collaborators throw.
PlainMessage == <<"failure">>

LockedMessage == <<"database is ", "locked">>

Env(config, open, names, sessions) ==
  [config |-> config, open |-> open, names |-> names,
   avatars |-> [st |-> "ok", map |-> (IdA :> <<"h">>)],
   contact |-> [st |-> "ok", map |-> (IdA :> [nickName |-> NameAlice, remark |-> <<"r">>])],
   sessions |-> sessions,
   zstd |-> [ok |-> FALSE, text |-> <<>>],
   media |-> NoMedia,
   transcript |-> [st |-> "ok", transcript |-> <<"t">>],
   avatarFetch |-> "ok", now |-> 5, mkdirOutput |-> "ok", rejects |-> {},
   thrown |-> PlainMessage]

NoRange == [on |-> FALSE, start |-> 0, end |-> 0]

Options(format, dateRange) ==
  [format |-> format, dateRange |-> dateRange, exportAvatars |-> FALSE,
   exportImages |-> FALSE, exportVoices |-> FALSE, exportEmojis |-> FALSE,
   exportVoiceAsText |-> FALSE, excelCompactColumns |-> FALSE]

Formats == {"chatlab", "chatlab-jsonl", "json", "excel"}

Run(e, sessionId, options, onProgress) ==
  [phase |-> "input", e |-> e, sessionId |-> sessionId, options |-> options,
   onProgress |-> onProgress, out |-> ExportFailed(EmptyWorld, <<>>)]

Everywhere(session) == [id \in SessionIds |-> session]

\* Exports of any rows, with and without a date range.
RowRuns ==
  { Run(Env(GoodConfig, "ok", names, Everywhere(Session("ok", rows, "ok", "ok"))),
        id, Options(format, range), "ok") :
      names \in {SomeNames, [st |-> "fail", map |-> NoNames]},
      rows \in SeqsUpTo(RowPool \cup {MalformedPatRow}, MaxRows),
      id \in {IdA, IdGroup},
      format \in Formats,
      range \in {NoRange, [on |-> TRUE, start |-> 1, end |-> 1]} }

SampleRows ==
  << Row(<<"2">>, "1", <<"h", "i">>, IdA, <<"0">>, <<"1">>),
     Row(<<"1">>, "1", <<"y", "o">>, IdU, <<"0">>, <<"2">>) >>

BadConfigs ==
  { [GoodConfig EXCEPT !.myWxid = <<>>],
    [GoodConfig EXCEPT !.dbPath = <<>>],
    [GoodConfig EXCEPT !.decryptKey = <<>>],
    [GoodConfig EXCEPT !.myWxid = <<" ">>] }

\* An Excel export of a conversation long enough for two progress events
\* of its message loop.
LongRuns ==
  { Run(Env(GoodConfig, "ok", SomeNames,
            Everywhere(Session("ok", [i \in 1..(2 * ProgressEvery) |-> SampleRows[1]],
                               "ok", "ok"))),
        IdA, Options("excel", NoRange), "ok") }

\* Exports of a group whose roster lookup may fail.
RosterRuns ==
  { Run(Env(GoodConfig, "ok", names,
            Everywhere([Session("ok", SampleRows, "ok", "ok") EXCEPT !.roster = roster])),
        IdGroup, Options(format, NoRange), "ok") :
      names \in {SomeNames, [st |-> "throw", map |-> NoNames]},
      roster \in {[st |-> "ok", members |-> <<>>], [st |-> "fail", members |-> <<>>],
                  [st |-> "throw", members |-> <<>>]},
      format \in Formats }

\* What fetchMessageBatch may answer after a first batch that announces more:
\* a failure, an exception, or nothing more.
BrokenBatches ==
  { << [st |-> "fail", rows |-> <<>>, hasMore |-> FALSE] >>,
    << [st |-> "ok", rows |-> SampleRows, hasMore |-> TRUE],
       [st |-> "fail", rows |-> <<>>, hasMore |-> FALSE] >>,
    << [st |-> "ok", rows |-> SampleRows, hasMore |-> TRUE],
       [st |-> "throw", rows |-> <<>>, hasMore |-> FALSE] >>,
    << [st |-> "ok", rows |-> SampleRows, hasMore |-> TRUE],
       [st |-> "ok", rows |-> <<>>, hasMore |-> FALSE] >> }

\* Exports whose batch loop ends early: a batch fails or rejects, or the
\* name lookup of the sender of a row rejects.
CursorRuns ==
  { Run(Env(GoodConfig, "ok", SomeNames,
            Everywhere([Session("ok", SampleRows, "ok", "ok") EXCEPT !.batches = batches])),
        IdA, Options(format, NoRange), "ok") :
      batches \in BrokenBatches, format \in Formats }
    \cup
  { Run([Env(GoodConfig, "ok", SomeNames, Everywhere(Session("ok", SampleRows, "ok", "ok")))
           EXCEPT !.rejects = {IdU}],
        IdA, Options(format, NoRange), "ok") : format \in Formats }

\* Exports whose failing steps throw an exception that says "locked".
LockedRuns ==
  { Run([Env(GoodConfig, open, SomeNames,
             Everywhere(Session(cursor, SampleRows, write, "ok")))
           EXCEPT !.thrown = LockedMessage],
        IdA, Options(format, NoRange), "ok") :
      open \in {"ok", "throw"},
      cursor \in {"ok", "throw"},
      write \in {"ok", "throw", "busy"},
      format \in Formats }

\* Exports whose connection check, cursor, write or roster lookup may fail.
FailureRuns ==
  { Run(Env(config, open, SomeNames, Everywhere(Session(cursor, SampleRows, write, "ok"))),
        IdA, Options(format, NoRange), "ok") :
      config \in BadConfigs \cup {GoodConfig},
      open \in {"ok", "fail", "throw"},
      cursor \in {"ok", "fail", "nohandle", "throw"},
      write \in {"ok", "throw", "busy"},
      format \in Formats }
    \cup RosterRuns \cup LongRuns \cup CursorRuns \cup LockedRuns

\* Exports with the options on, of a conversation with a voice message.
OptionRuns ==
  { Run([Env(GoodConfig, "ok", names,
             Everywhere(Session("ok", SampleRows \o << Row(<<"1">>, "34", <<"<voicemsg>">>,
                                                          <<>>, <<"1">>, <<"3">>) >>,
                                "ok", "ok")))
           EXCEPT !.media = media],
        id,
        [Options(format, NoRange) EXCEPT !.exportAvatars = TRUE,
                                         !.exportVoices = TRUE,
                                         !.exportVoiceAsText = asText,
                                         !.excelCompactColumns = TRUE],
        onProgress) :
      names \in {SomeNames, [st |-> "throw", map |-> NoNames]},
      media \in MediaEnvs,
      id \in {IdA, IdGroup},
      format \in Formats,
      asText \in BOOLEAN,
      onProgress \in {"ok", "none", "throw"} }

\* Rows of media messages, some with the local id of another and some with
\* none.
ImageRow(md5, local_id) ==
  Row(<<"1">>, "3", <<"<img ", "md5=\"", md5, "\"", ">">>, IdA, <<"0">>, local_id)

VoiceRow(create_time, local_id) ==
  Row(create_time, "34", <<"<voicemsg>">>, IdA, <<"0">>, local_id)

EmojiRow(md5, local_id) ==
  Row(<<"1">>, "47", <<"<emoji ", "md5=\"", md5, "\"", " ", "cdnurl", "=", "\"">>
                       \o EmojiUrl \o <<"\"", ">">>, IdA, <<"0">>, local_id)

MediaRows ==
  { ImageRow("m", <<"7">>), ImageRow("n", <<"7">>), ImageRow("n", <<>>),
    ImageRow("m", <<>>),
    VoiceRow(<<"1">>, <<"7">>), VoiceRow(<<"2">>, <<"7">>), VoiceRow(<<"2">>, <<>>),
    EmojiRow("k", <<"7">>), EmojiRow("j", <<"7">>) }

\* Excel exports of media messages with every media option on.
MediaRuns ==
  { Run([Env(GoodConfig, "ok", SomeNames, Everywhere(Session("ok", rows, "ok", "ok")))
           EXCEPT !.media = media],
        IdA,
        [Options("excel", NoRange) EXCEPT !.exportImages = TRUE, !.exportVoices = TRUE,
                                          !.exportEmojis = TRUE],
        "ok") :
      rows \in SeqsUpTo(MediaRows, 2) \ {<<>>},
      media \in MediaEnvs }

ExpInit ==
  /\ exp \in RowRuns \cup FailureRuns \cup OptionRuns \cup MediaRuns
  /\ dec = DecIdle
  /\ par = ParIdle
  /\ mrg = MrgIdle
  /\ bat = BatIdle
  /\ med = MedIdle
  /\ net = NetIdle

ExportSessionToChatLab ==
  /\ exp.phase = "input"
  /\ exp.options.format \in {"chatlab", "chatlab-jsonl"}
  /\ exp' = [exp EXCEPT !.phase = "done",
               !.out = exportSessionToChatLab(EmptyWorld, exp.e, exp.sessionId, OutputPath,
                                              exp.options, exp.onProgress)]
  /\ UNCHANGED <<dec, par, mrg, bat, med, net>>

ExportSessionToDetailedJson ==
  /\ exp.phase = "input"
  /\ exp.options.format = "json"
  /\ exp' = [exp EXCEPT !.phase = "done",
               !.out = exportSessionToDetailedJson(EmptyWorld, exp.e, exp.sessionId,
                                                   OutputPath, exp.options, exp.onProgress)]
  /\ UNCHANGED <<dec, par, mrg, bat, med, net>>

ExportSessionToExcel ==
  /\ exp.phase = "input"
  /\ exp.options.format = "excel"
  /\ exp' = [exp EXCEPT !.phase = "done",
               !.out = exportSessionToExcel(EmptyWorld, exp.e, exp.sessionId, OutputPath,
                                            exp.options, exp.onProgress)]
  /\ UNCHANGED <<dec, par, mrg, bat, med, net>>

NextExport ==
  \/ ExportSessionToChatLab
  \/ ExportSessionToDetailedJson
  \/ ExportSessionToExcel

(***************************************************************************)
(* Inputs of the batch export                                              *)
(***************************************************************************)
\* What may happen to each conversation of a batch.
BatchSessions ==
  { (IdA :> a) @@ (IdU :> u) @@ (IdGroup :> g) :
      a \in {Session("ok", SampleRows, "ok", "ok"), Session("ok", SampleRows, "throw", "ok")},
      u \in {Session("ok", SampleRows, "ok", "ok"), Session("ok", SampleRows, "ok", "throw"),
             Session("ok", << MalformedPatRow >>, "ok", "ok")},
      g \in {Session("ok", <<>>, "ok", "ok"), Session("fail", SampleRows, "ok", "ok")} }

BatchFrame(e, sessionIds, options, onProgress) ==
  [pc |-> "start", i |-> 0, successCount |-> 0, failCount |-> 0, w |-> EmptyWorld,
   attempted |-> <<>>, outcomes |-> <<>>,
   result |-> [success |-> FALSE, successCount |-> 0, failCount |-> 0, error |-> <<>>],
   e |-> e, sessionIds |-> sessionIds, options |-> options, onProgress |-> onProgress]

\* Batches of any conversations with any outcomes.
OutcomeBatches ==
  { BatchFrame(Env(GoodConfig, "ok", SomeNames, sessions), ids, Options(format, NoRange), "ok") :
      sessions \in BatchSessions,
      ids \in SeqsUpTo(SessionIds, MaxSessions),
      format \in {"chatlab", "excel"} }

\* Batches whose connection check, lookups, folders or callback may fail.
FailureBatches ==
  { BatchFrame([Env(config, open, names, Everywhere(Session("ok", SampleRows, "ok", "ok")))
                  EXCEPT !.mkdirOutput = mkdirOutput],
               << IdA, IdU >>, Options(format, NoRange), onProgress) :
      config \in BadConfigs \cup {GoodConfig},
      open \in {"ok", "fail", "throw"},
      names \in {SomeNames, [st |-> "throw", map |-> NoNames]},
      mkdirOutput \in {"ok", "throw"},
      format \in {"json", "chatlab-jsonl", "html"},
      onProgress \in {"ok", "none", "throw"} }

\* Batches in which the batch loop of a conversation ends early.
CursorBatches ==
  { BatchFrame(Env(GoodConfig, "ok", SomeNames,
                   (IdA :> [Session("ok", SampleRows, "ok", "ok") EXCEPT !.batches = batches])
                     @@ Everywhere(Session("ok", SampleRows, "ok", "ok"))),
               << IdA, IdU >>, Options(format, NoRange), "ok") :
      batches \in BrokenBatches, format \in {"json", "excel"} }

\* Every media collaborator answers.
AllMedia ==
  [NoMedia EXCEPT !.decrypt = [st |-> "ok", localPath |-> DataUrl("image/png")],
                  !.voice = [st |-> "ok", data |-> <<"Q", "Q", "=", "=">>],
                  !.http = <<Response(200, <<>>, "finish")>>]

\* Excel batches of two conversations with the same media messages.
MediaBatches ==
  { BatchFrame([Env(GoodConfig, "ok", SomeNames, Everywhere(Session("ok", rows, "ok", "ok")))
                  EXCEPT !.media = AllMedia],
               << IdA, IdU >>,
               [Options("excel", NoRange) EXCEPT !.exportImages = TRUE, !.exportVoices = TRUE,
                                                 !.exportEmojis = TRUE],
               "ok") :
      rows \in { << ImageRow("m", <<"7">>), ImageRow("n", <<"7">>) >>,
                 << VoiceRow(<<"1">>, <<"7">>), EmojiRow("k", <<"7">>) >> } }

\* Names of two conversations: the same name, names that differ in a
\* character that no file name may hold, and different names.
ClashNames ==
  { (IdA :> NameOther) @@ (IdU :> NameOther),
    (IdA :> <<"x", ":">>) @@ (IdU :> <<"x", "?">>),
    (IdA :> NameAlice) @@ (IdU :> NameOther) }

\* Batches of two conversations by their names.
NameBatches ==
  { BatchFrame(Env(GoodConfig, "ok", [st |-> "ok", map |-> names],
                   Everywhere(Session("ok", rows, "ok", "ok"))),
               ids, Options(format, NoRange), "ok") :
      names \in ClashNames,
      rows \in {SampleRows, <<>>},
      ids \in {<< IdA, IdU >>, << IdU, IdA >>},
      format \in Formats }

BatInit ==
  /\ bat \in OutcomeBatches \cup FailureBatches \cup CursorBatches \cup MediaBatches
             \cup NameBatches
  /\ dec = DecIdle
  /\ par = ParIdle
  /\ mrg = MrgIdle
  /\ exp = ExpIdle
  /\ med = MedIdle
  /\ net = NetIdle

\* exportSessions is called: the connection check and the output folder.
BatchStart ==
  /\ bat.pc = "start"
  /\ bat' = batchStart(bat, bat.e, bat.sessionIds, OutputDir)
  /\ UNCHANGED <<dec, par, mrg, exp, med, net>>

\* One conversation of the list is exported.
BatchTurn ==
  /\ bat.pc = "loop"
  /\ bat.i <= Len(bat.sessionIds)
  /\ bat' = batchTurn(bat, bat.e, bat.sessionIds, OutputDir, bat.options, bat.onProgress)
  /\ UNCHANGED <<dec, par, mrg, exp, med, net>>

\* The list is done: exportSessions returns.
BatchEnd ==
  /\ bat.pc = "loop"
  /\ bat.i > Len(bat.sessionIds)
  /\ bat' = batchEnd(bat, bat.sessionIds, bat.onProgress)
  /\ UNCHANGED <<dec, par, mrg, exp, med, net>>

NextBatch == BatchStart \/ BatchTurn \/ BatchEnd

(***************************************************************************)
(* Inputs of the downloads                                                 *)
(***************************************************************************)
UrlA == <<"http://a">>

UrlB == <<"http://b">>

Urls == {UrlA, UrlB}

Answer(kind, statusCode, location, stream) ==
  [kind |-> kind, statusCode |-> statusCode, location |-> location, stream |-> stream]

\* What the network may answer to a request.
Answers ==
  { Answer("error", 0, <<>>, "none"), Answer("timeout", 0, <<>>, "none"),
    Answer("response", 200, <<>>, "finish"), Answer("response", 200, <<>>, "error"),
    Answer("response", 404, <<>>, "none"), Answer("response", 302, <<>>, "none") }
    \cup {Answer("response", status, url, "none") : status \in {301, 302, 307}, url \in Urls}

NetInit ==
  /\ net \in [pc : {"calling"}, fn : {"downloadFile", "downloadToBuffer"}, url : {UrlA},
               remainingRedirects : {2}, requests : {0}, server : [Urls -> Answers],
               result : {"none"}, file : {"none"}]
  /\ dec = DecIdle
  /\ par = ParIdle
  /\ mrg = MrgIdle
  /\ exp = ExpIdle
  /\ bat = BatIdle
  /\ med = MedIdle

\* downloadFile is called, by exportEmoji or by itself after a redirect.
DownloadFile ==
  /\ net.pc = "calling"
  /\ net.fn = "downloadFile"
  /\ net' = Requested(net)
  /\ UNCHANGED <<dec, par, mrg, exp, bat, med>>

\* The request of downloadFile is answered.
DownloadFileAnswered ==
  /\ net.pc = "pending"
  /\ net.fn = "downloadFile"
  /\ net' = downloadFileResponse(net, net.server[net.url])
  /\ UNCHANGED <<dec, par, mrg, exp, bat, med>>

\* downloadToBuffer is called, by exportAvatars or by itself after a
\* redirect.
DownloadToBuffer ==
  /\ net.pc = "calling"
  /\ net.fn = "downloadToBuffer"
  /\ net' = Requested(net)
  /\ UNCHANGED <<dec, par, mrg, exp, bat, med>>

\* The request of downloadToBuffer is answered.
DownloadToBufferAnswered ==
  /\ net.pc = "pending"
  /\ net.fn = "downloadToBuffer"
  /\ net' = downloadToBufferResponse(net, net.server[net.url])
  /\ UNCHANGED <<dec, par, mrg, exp, bat, med>>

NextNet ==
  \/ DownloadFile
  \/ DownloadFileAnswered
  \/ DownloadToBuffer
  \/ DownloadToBufferAnswered

(***************************************************************************)
(* Specifications                                                          *)
(***************************************************************************)
SpecDecode == DecInit /\ [][DecodeMessageContent]_vars

SpecParse == ParInit /\ [][ParseMessageContent]_vars

SpecMerge == MrgInit /\ [][MergeGroupMembers]_vars

SpecMedia == MedInit /\ [][ExportMediaForMessage]_vars

SpecExport == ExpInit /\ [][NextExport]_vars

SpecBatch == BatInit /\ [][NextBatch]_vars

\* Any entry point of the service is called: one of the three exports, or
\* exportSessions.
EntryInit ==
  /\ \/ exp \in RowRuns \cup FailureRuns \cup OptionRuns \cup MediaRuns /\ bat = BatIdle
     \/ /\ bat \in OutcomeBatches \cup FailureBatches \cup CursorBatches \cup MediaBatches
                     \cup NameBatches
        /\ exp = ExpIdle
  /\ dec = DecIdle
  /\ par = ParIdle
  /\ mrg = MrgIdle
  /\ med = MedIdle
  /\ net = NetIdle

SpecEntry == EntryInit /\ [][NextExport \/ NextBatch]_vars

\* The media extractor has had all its calls.
MedParked == [MedIdle EXCEPT !.calls = MaxMediaCalls]

\* The media extractor is called on its own, or inside an export with
\* media options.
MediaRowsInit ==
  /\ \/ med = MedIdle /\ exp = ExpIdle
     \/ med = MedParked /\ exp \in OptionRuns
  /\ dec = DecIdle
  /\ par = ParIdle
  /\ mrg = MrgIdle
  /\ bat = BatIdle
  /\ net = NetIdle

SpecMediaRows == MediaRowsInit /\ [][ExportMediaForMessage \/ NextExport]_vars

\* Every request is answered in the end: by a response, an error or the
\* timeout of the request.
SpecDownload == NetInit /\ [][NextNet]_vars /\ WF_vars(NextNet)

(***************************************************************************)
(* Two exports of one service                                              *)
(***************************************************************************)
\* What the name lookup may answer during an export.
JobNames == {SomeNames, [st |-> "fail", map |-> NoNames]}

\* Exports of a few rows, with either answer of the name lookup.
JobRuns ==
  { Run(Env(GoodConfig, "ok", names, Everywhere(Session("ok", rows, "ok", "ok"))),
        id, Options(format, NoRange), "ok") :
      names \in JobNames,
      rows \in SeqsUpTo({SampleRows[1], SampleRows[2]}, MaxRows),
      id \in {IdA, IdGroup},
      format \in Formats }

JobsInit ==
  /\ exp \in JobRuns
  /\ dec = DecIdle
  /\ par = ParIdle
  /\ mrg = MrgIdle
  /\ bat = BatIdle
  /\ med = MedIdle
  /\ net = NetIdle

\* The export that a call asks for, on a service in state w.
exportCalled(w, e, sessionId, options, onProgress) ==
  IF options.format = "json"
    THEN exportSessionToDetailedJson(w, e, sessionId, OutputPath, options, onProgress)
  ELSE IF options.format = "excel"
    THEN exportSessionToExcel(w, e, sessionId, OutputPath, options, onProgress)
  ELSE exportSessionToChatLab(w, e, sessionId, OutputPath, options, onProgress)

\* The same export is asked of exportService once more (the one instance of
\* ExportService, whose contactCache is never cleared), while the name
\* lookup answers as it then does.
ExportAgain ==
  /\ exp.phase = "done"
  /\ \E names \in JobNames :
       exp' = [phase |-> "again", e |-> [exp.e EXCEPT !.names = names],
               sessionId |-> exp.sessionId, options |-> exp.options,
               onProgress |-> exp.onProgress, before |-> exp.out.w,
               out |-> exportCalled(exp.out.w, [exp.e EXCEPT !.names = names],
                                    exp.sessionId, exp.options, exp.onProgress)]
  /\ UNCHANGED <<dec, par, mrg, bat, med, net>>

NextJobs == NextExport \/ ExportAgain

SpecJobs == JobsInit /\ [][NextJobs]_vars

(***************************************************************************)
(* Claims                                                                  *)
(***************************************************************************)
\* Whether decoding this raw value fails inside the chain: its bytes carry
\* the compression magic and the body does not decompress.
DecodeFails(raw, zstd) ==
  /\ raw.kind = "string"
  /\ ~zstd.ok
  /\ LET bytes == IF looksLikeHex(raw.s) THEN BufferFromHex(raw.s)
                  ELSE IF looksLikeBase64(raw.s) THEN BufferFromBase64(raw.s)
                  ELSE <<>>
     IN Len(bytes) >= 4 /\ SubSeq(bytes, 1, 4) = ZstdMagicLE

\* Whether this raw value decodes to nothing without any attempt.
NothingToDecode(raw) == raw.kind # "string" \/ raw.s = <<>>

\* C7: decodeMessageContent never throws: for every pair of raw values it
\* returns a string, and when the decode of the payload fails (with no other
\* payload to fall back on) the string is empty.
C7_DecodeNeverThrows ==
  dec.phase = "done" =>
    /\ ~dec.result.ex
    /\ ( /\ DecodeFails(dec.compressContent, dec.zstd) \/ NothingToDecode(dec.compressContent)
         /\ DecodeFails(dec.messageContent, dec.zstd) \/ NothingToDecode(dec.messageContent)
         => dec.result.v = <<>> )

\* C7 witness: a payload with the compression magic and a corrupt body was
\* decoded, to the empty string.
C7_Witness ==
  /\ dec.phase = "done"
  /\ DecodeFails(dec.compressContent, dec.zstd)
  /\ DecodeFails(dec.messageContent, dec.zstd)
  /\ looksLikeHex(dec.compressContent.s)
  /\ ~looksLikeHex(dec.messageContent.s)
  /\ dec.result = Ret(<<>>)

\* C8: parseMessageContent never throws, whatever the content and the type,
\* and returns null when the content is empty.
C8_ParseNeverThrows ==
  par.phase = "done" =>
    /\ ~par.result.ex
    /\ (par.content = <<>> => par.result.null)

\* C5: mergeGroupMembers never overwrites a resolved name: a member whose
\* accountName differed from its platformId before the merge has the same
\* accountName after it, so a name is replaced only if it was the platformId.
C5_ResolvedNameKept ==
  mrg.phase = "done" /\ ~mrg.result.ex =>
    \A i \in 1..Len(mrg.before) :
      LET old == mrg.before[i]
      IN /\ MapHas(mrg.result.v, old.key)
         /\ ( old.accountName # old.platformId
              => MapGet(mrg.result.v, old.key).accountName = old.accountName )
         /\ ( MapGet(mrg.result.v, old.key).accountName # old.accountName
              => old.accountName = old.platformId )

\* C5 witness: the roster and the name lookup gave another name for a member
\* that had a resolved name, and one that had none got its name.
C5_Witness ==
  /\ mrg.phase = "done"
  /\ ~mrg.result.ex
  /\ mrg.names.st = "ok"
  /\ \E i \in 1..Len(mrg.before) :
       /\ mrg.before[i].accountName = NameAlice
       /\ \E j \in 1..Len(mrg.roster.members) :
            mrg.roster.members[j].username = mrg.before[i].key
       /\ MapAt(mrg.names.map, mrg.before[i].key) = NameOther
       /\ MapGet(mrg.result.v, mrg.before[i].key).accountName = NameAlice
  /\ \E i \in 1..Len(mrg.before) :
       /\ mrg.before[i].accountName = mrg.before[i].platformId
       /\ MapGet(mrg.result.v, mrg.before[i].key).accountName = NameOther

\* How many of the exports that a batch called returned this success.
CountOutcomes(outcomes, success) ==
  Cardinality({i \in 1..Len(outcomes) : outcomes[i].success = success})

\* Whether the connection check of exportSessions passes.
ConnectionPassed(e) == ~ensureConnected(e).ex /\ ensureConnected(e).v.success

\* C1: once the connection check has passed, exportSessions attempts every
\* conversation of the list exactly once and in list order, whatever the
\* outcome of the earlier ones, and returns successCount = the number of
\* exports that returned success, failCount = the number that returned
\* failure, and successCount + failCount = N.
C1_BatchAccounting ==
  /\ bat.pc = "loop" => bat.attempted = SubSeq(bat.sessionIds, 1, bat.i - 1)
  /\ (bat.pc = "returned" /\ ConnectionPassed(bat.e)) =>
       /\ bat.attempted = bat.sessionIds
       /\ bat.result.successCount = CountOutcomes(bat.outcomes, TRUE)
       /\ bat.result.failCount = CountOutcomes(bat.outcomes, FALSE)
       /\ bat.result.successCount + bat.result.failCount = Len(bat.sessionIds)

\* Whether the export asked for the cursor of its conversation and the
\* cursor did not open: openMessageCursor reported failure or no handle.
CursorRefused ==
  /\ exp.phase = "done"
  /\ exp.e.sessions[exp.sessionId].cursor \in {"fail", "nohandle"}
  /\ \E i \in 1..Len(exp.out.w.cursors) : exp.out.w.cursors[i] = "refused"

\* C3: an export whose message cursor cannot be opened fails: it returns
\* success = false with a reason and writes no output file.
C3_CursorFailureFails ==
  CursorRefused =>
    /\ ~exp.out.v.success
    /\ exp.out.v.error # <<>>
    /\ OutputPath \notin DOMAIN exp.out.w.fs.files

\* C10: media export is idempotent: the extraction of the media of an
\* image, voice or emoji message writes, copies or downloads to no path
\* that already held a file before the call.
C10_MediaIdempotent ==
  med.last.msg # <<>> => med.last.wrote \cap med.last.before = {}

\* Whether a prerequisite of the connection is missing: the account id,
\* the database path or the decryption key is absent, or the store does not
\* open.
PreconditionFails(e) ==
  \/ e.config.myWxid = <<>>
  \/ e.config.dbPath = <<>>
  \/ e.config.decryptKey = <<>>
  \/ e.open # "ok"

\* No cursor was asked for, no file or folder created, no progress event
\* emitted.
Untouched(w) == w.cursors = <<>> /\ w.fs = EmptyDisk /\ w.progress = <<>>

\* Every failure that the connection check itself returns has a reason.
ConnFailureHasReason(e) ==
  (~ensureConnected(e).ex /\ ~ensureConnected(e).v.success)
    => ensureConnected(e).v.error # <<>>

\* C2: when the account id, the database path or the decryption key is
\* absent or the store cannot be opened, each of the three exports and
\* exportSessions returns success = false with a non-empty reason, having
\* opened no cursor, created no file or folder and emitted no progress
\* event; and every failure of the connection check carries a reason.
C2_PreconditionFailure ==
  /\ exp.phase = "done" =>
       /\ ConnFailureHasReason(exp.e)
       /\ PreconditionFails(exp.e) =>
            /\ ~exp.out.v.success
            /\ exp.out.v.error # <<>>
            /\ Untouched(exp.out.w)
  /\ bat.pc = "returned" =>
       /\ ConnFailureHasReason(bat.e)
       /\ PreconditionFails(bat.e) =>
            /\ ~bat.result.success
            /\ bat.result.error # <<>>
            /\ bat.result.successCount = 0
            /\ Untouched(bat.w)

\* C2 witness: exportSessions returned for a configuration without
\* decryption key, with the reason of the connection check.
C2_Witness ==
  /\ bat.pc = "returned"
  /\ bat.e.config.decryptKey = <<>>
  /\ bat.e.config.myWxid # <<>>
  /\ bat.e.config.dbPath # <<>>
  /\ bat.result.error = ErrorDecryptKey
  /\ bat.result.failCount = Len(bat.sessionIds)

\* The file that the export wrote at its output path.
WrittenFile == exp.out.w.fs.files[OutputPath]

\* The messages of the written file, in the order of the file.
WrittenMessages ==
  IF WrittenFile.kind = "jsonl"
    THEN SelectSeq(WrittenFile.lines, LAMBDA line : line._type = "message")
  ELSE IF WrittenFile.kind = "json" THEN WrittenFile.value.messages
  ELSE WrittenFile.rows

\* The members of the written file of a ChatLab export.
WrittenMembers ==
  IF WrittenFile.kind = "jsonl"
    THEN SelectSeq(WrittenFile.lines, LAMBDA line : line._type = "member")
  ELSE WrittenFile.value.members

\* The place of row k in the stable order by createTime: after every row
\* that is earlier, and after every row of the same time fetched before it.
StableRank(rows, k) ==
  1 + Cardinality({j \in 1..Len(rows) :
                     \/ rows[j].createTime < rows[k].createTime
                     \/ rows[j].createTime = rows[k].createTime /\ j < k})

\* The fetch position of the row that the stable order puts at place i.
FetchedAt(i) ==
  CHOOSE k \in 1..Len(exp.out.fetched) : StableRank(exp.out.fetched, k) = i

\* Whether a written message is the one of this row, fetched at place k.
WrittenFrom(written, row, k) ==
  IF exp.options.format \in {"chatlab", "chatlab-jsonl"}
    THEN /\ written.timestamp = row.createTime
         /\ written.sender = row.senderUsername
         /\ written.type = convertMessageType(row.localType, row.content)
  ELSE IF exp.options.format = "json"
    THEN /\ written.createTime = row.createTime
         /\ written.senderUsername = row.senderUsername
         /\ written.localId = k
  ELSE /\ written[2] = formatTimestamp(row.createTime)
       /\ written[Len(written) - 1] = getMessageTypeName(row.localType)

\* The time of a written message, in seconds.
WrittenTime(written) ==
  IF exp.options.format \in {"chatlab", "chatlab-jsonl"} THEN written.timestamp
  ELSE IF exp.options.format = "json" THEN written.createTime
  ELSE written[2].day * 86400 + written[2].hours * 3600
         + written[2].minutes * 60 + written[2].seconds

\* C4: in every format the written messages are the stable sort of the
\* fetched rows by createTime: the message at place i is the row that the
\* stable order puts there, so times never decrease along the file and rows
\* of equal time keep the order in which the cursor delivered them.
C4_StableSortByCreateTime ==
  (exp.phase = "done" /\ exp.out.v.success) =>
    /\ Len(WrittenMessages) = Len(exp.out.fetched)
    /\ \A i \in 1..Len(WrittenMessages) :
         WrittenFrom(WrittenMessages[i], exp.out.fetched[FetchedAt(i)], FetchedAt(i))
    /\ \A i, j \in 1..Len(WrittenMessages) :
         i < j => WrittenTime(WrittenMessages[i]) <= WrittenTime(WrittenMessages[j])

\* C4 witness: an export succeeded on rows that the cursor delivered out of
\* time order, two different ones of them with the same createTime.
C4_Witness ==
  /\ exp.phase = "done"
  /\ exp.out.v.success
  /\ \E i, j \in 1..Len(exp.out.fetched) :
       /\ i < j
       /\ exp.out.fetched[i].createTime > exp.out.fetched[j].createTime
  /\ \E i, j \in 1..Len(exp.out.fetched) :
       /\ i < j
       /\ exp.out.fetched[i].createTime = exp.out.fetched[j].createTime
       /\ exp.out.fetched[i].senderUsername # exp.out.fetched[j].senderUsername
       /\ exp.out.fetched[i].localType # exp.out.fetched[j].localType

\* Whether the name lookup gives no name for this id: it fails, its map
\* lacks the id, or the name is empty.
NoNameFor(e, id) == e.names.st # "ok" \/ MapAt(e.names.map, id) = <<>>

\* C6: every member has a non-empty accountName, which is the platformId
\* when the name lookup fails, returns a partial map or an empty name: so
\* has every entry of the contact cache that the member map is filled from,
\* every member and every message of a written ChatLab file, and every
\* sender of a written detailed JSON file.
C6_AccountNameNonEmpty ==
  exp.phase = "done" =>
    /\ \A id \in DOMAIN exp.out.w.cache :
         /\ exp.out.w.cache[id].displayName # <<>>
         /\ NoNameFor(exp.e, id) => exp.out.w.cache[id].displayName = id
    /\ (exp.out.v.success /\ exp.options.format \in {"chatlab", "chatlab-jsonl"}) =>
         /\ \A i \in 1..Len(WrittenMembers) :
              /\ WrittenMembers[i].accountName # <<>>
              /\ NoNameFor(exp.e, WrittenMembers[i].platformId)
                   => WrittenMembers[i].accountName = WrittenMembers[i].platformId
         /\ \A i \in 1..Len(WrittenMessages) : WrittenMessages[i].accountName # <<>>
    /\ (exp.out.v.success /\ exp.options.format = "json") =>
         \A i \in 1..Len(WrittenMessages) : WrittenMessages[i].senderDisplayName # <<>>

\* C6 witness: a ChatLab file was written with a member whose name the
\* lookup gave as empty and a member that the map of the lookup lacks, each
\* under its platformId.
C6_Witness ==
  /\ exp.phase = "done"
  /\ exp.out.v.success
  /\ exp.options.format \in {"chatlab", "chatlab-jsonl"}
  /\ exp.e.names.st = "ok"
  /\ IdMe \in DOMAIN exp.e.names.map
  /\ exp.e.names.map[IdMe] = <<>>
  /\ IdU \notin DOMAIN exp.e.names.map
  /\ \E i, j \in 1..Len(WrittenMembers) :
       /\ WrittenMembers[i].platformId = IdMe
       /\ WrittenMembers[i].accountName = IdMe
       /\ WrittenMembers[j].platformId = IdU
       /\ WrittenMembers[j].accountName = IdU

\* The rows that the cursor of the conversation delivers, batch by batch.
RECURSIVE DeliveredRows(_)
DeliveredRows(batches) ==
  IF batches = <<>> THEN <<>> ELSE Head(batches).rows \o DeliveredRows(Tail(batches))

\* Whether a row passes the date filter of the export.
PassesDateFilter(row, dateRange) ==
  \/ ~dateRange.on
  \/ /\ parseInt(Or(row.create_time, <<"0">>)) >= dateRange.start
     /\ parseInt(Or(row.create_time, <<"0">>)) <= dateRange.end

\* Whether nothing but the content of the rows can fail the export: the
\* connection, the cursor, the lookups, the callback and the disk work.
OnlyRowsAtRisk ==
  /\ exp.phase = "done"
  /\ ~PreconditionFails(exp.e)
  /\ ConnectionPassed(exp.e)
  /\ ensureConnected(exp.e).v.cleanedWxid # <<>>
  /\ exp.e.sessions[exp.sessionId].cursor = "ok"
  /\ exp.e.sessions[exp.sessionId].write = "ok"
  /\ exp.e.names.st # "throw"
  /\ exp.e.avatars.st # "throw"
  /\ exp.e.contact.st # "throw"
  /\ exp.onProgress # "throw"

\* C9: a malformed message never aborts an export: whatever the content of
\* the rows that the cursor delivers, the export succeeds and its file has
\* one message for each delivered row that passes the date filter.
C9_MalformedNeverAborts ==
  OnlyRowsAtRisk =>
    /\ exp.out.v.success
    /\ Len(WrittenMessages) =
         Cardinality({k \in 1..Len(DeliveredRows(exp.e.sessions[exp.sessionId].batches)) :
                        PassesDateFilter(
                          DeliveredRows(exp.e.sessions[exp.sessionId].batches)[k],
                          exp.options.dateRange)})

\* The file that an exported media item names, in the media directory.
DestOf(item) ==
  MediaDir \o << <<"media">>, <<item.relativePath[2]>>,
                 SubSeq(item.relativePath, 4, Len(item.relativePath)) >>

\* Whether a download of the emoji host ends with a body that is written.
RECURSIVE DownloadGives(_)
DownloadGives(responses) ==
  /\ responses # <<>>
  /\ IF Head(responses).statusCode \in {301, 302} /\ Head(responses).location # <<>>
       THEN DownloadGives(Tail(responses))
     ELSE Head(responses).statusCode = 200 /\ Head(responses).stream = "finish"

\* Whether the collaborator behind a kind of media gives its data and the
\* disk takes it.
CollaboratorGives(kind, env) ==
  /\ env.disk = "ok"
  /\ kind = "image" =>
       \/ env.decrypt.st = "ok" /\ env.decrypt.localPath # <<>>
       \/ env.decrypt.st # "throw" /\ env.thumb.st = "ok" /\ env.thumb.localPath # <<>>
  /\ kind = "voice" => env.voice.st = "ok" /\ env.voice.data # <<>>
  /\ kind = "emoji" => DownloadGives(env.http)

\* Whether the voice collaborator of an export fails.
VoiceFails(env) == env.voice.st # "ok" \/ env.voice.data = <<>> \/ env.disk = "throw"

\* The content cell of a written row of the sheet.
ContentCell(written) == written[Len(written)]

BlankWxid(e) == e.config.myWxid # <<>> /\ cleanAccountDirName(e.config.myWxid) = <<>>

\* C12: no failure crosses the job boundary as an exception: whatever a
\* collaborator throws or answers (configuration, store, cursor, name
\* lookup, roster, file system, progress callback), each of the three
\* exports returns a result {success, error} and exportSessions a result
\* {success, successCount, failCount, error}, and a failure that a
\* collaborator caused has an error message.
C12_NoExceptionEscapes ==
  /\ exp.phase = "done" =>
       /\ DOMAIN exp.out.v = {"success", "error"}
       /\ exp.out.v.success \in BOOLEAN
       /\ (~exp.out.v.success /\ ~BlankWxid(exp.e)) => exp.out.v.error # <<>>
  /\ bat.pc = "returned" =>
       /\ DOMAIN bat.result = {"success", "successCount", "failCount", "error"}
       /\ bat.result.success \in BOOLEAN
       /\ ~bat.result.success => bat.result.error # <<>>

\* C12 witness: the roster lookup of a group threw inside a ChatLab export,
\* which returned the failure with the text of the exception.
C12_Witness ==
  /\ exp.phase = "done"
  /\ exp.sessionId = IdGroup
  /\ exp.options.format = "chatlab"
  /\ exp.e.names.st = "ok"
  /\ exp.e.sessions[IdGroup].roster.st = "throw"
  /\ exp.out.v = [success |-> FALSE, error |-> ErrorThrown]

\* The place of a phase in the order preparing, exporting, writing, complete.
PhaseRank(phase) ==
  CASE phase = "preparing" -> 1
    [] phase = "exporting" -> 2
    [] phase = "writing" -> 3
    [] phase = "complete" -> 4
    [] OTHER -> 0

\* Whether a sequence of progress events has one total, a current that
\* never decreases nor exceeds the total, phases that only move forward,
\* and 'complete' only as its last event, with current = total.
ProgressInOrder(events) ==
  /\ \A i \in 1..Len(events) :
       /\ PhaseRank(events[i].phase) >= 1
       /\ 0 <= events[i].current
       /\ events[i].current <= events[i].total
       /\ events[i].phase = "complete" =>
            i = Len(events) /\ events[i].current = events[i].total
  /\ \A i, j \in 1..Len(events) :
       i < j =>
         /\ events[i].total = events[j].total
         /\ events[i].current <= events[j].current
         /\ PhaseRank(events[i].phase) <= PhaseRank(events[j].phase)

\* Whether a sequence of progress events has the event 'complete'.
HasComplete(events) == \E i \in 1..Len(events) : events[i].phase = "complete"

DropType(line) == [k \in DOMAIN line \ {"_type"} |-> line[k]]

\* The lines of a JSONL file that have a tag, in the order of the file,
\* without the tag.
LinesOfType(lines, type) ==
  [i \in 1..Len(SelectSeq(lines, LAMBDA line : line._type = type)) |->
     DropType(SelectSeq(lines, LAMBDA line : line._type = type)[i])]

\* The document that the lines of a JSONL file give back.
Reconstructed(lines) ==
  [chatlab |-> lines[1].chatlab, meta |-> lines[1].meta,
   members |-> LinesOfType(lines, "member"),
   messages |-> LinesOfType(lines, "message")]

\* The document that the plain ChatLab JSON writer emits for the input of
\* the export.
PlainJsonDocument ==
  exportSessionToChatLab(EmptyWorld, exp.e, exp.sessionId, OutputPath,
                         [exp.options EXCEPT !.format = "chatlab"],
                         exp.onProgress).w.fs.files[OutputPath].value

\* C14: the JSONL writer emits 1 + |members| + |messages| lines: one header
\* line, then the member lines in the order of the members, then the
\* message lines in the order of the messages, each with its _type; parsing
\* the lines and dropping _type gives the chatlab/meta/members/messages
\* document that the plain ChatLab JSON writer emits for the same input.
C14_JsonlMatchesJson ==
  (exp.phase = "done" /\ exp.options.format = "chatlab-jsonl" /\ exp.out.v.success) =>
    /\ WrittenFile.kind = "jsonl"
    /\ Len(WrittenFile.lines) =
         1 + Len(PlainJsonDocument.members) + Len(PlainJsonDocument.messages)
    /\ \A i \in 1..Len(WrittenFile.lines) :
         WrittenFile.lines[i]._type =
           IF i = 1 THEN "header"
           ELSE IF i <= 1 + Len(PlainJsonDocument.members) THEN "member"
           ELSE "message"
    /\ DOMAIN WrittenFile.lines[1] = {"_type", "chatlab", "meta"}
    /\ Reconstructed(WrittenFile.lines) = PlainJsonDocument

\* C14 witness: a JSONL file was written with a header, two different
\* members and two different messages.
C14_Witness ==
  /\ exp.phase = "done"
  /\ exp.options.format = "chatlab-jsonl"
  /\ exp.out.v.success
  /\ Len(WrittenFile.lines) = 5
  /\ WrittenFile.lines[2]._type = "member"
  /\ WrittenFile.lines[3]._type = "member"
  /\ WrittenFile.lines[2] # WrittenFile.lines[3]
  /\ WrittenFile.lines[4]._type = "message"
  /\ WrittenFile.lines[5]._type = "message"
  /\ WrittenFile.lines[4] # WrittenFile.lines[5]
  /\ WrittenFile.lines[4].timestamp <= WrittenFile.lines[5].timestamp

\* The label of the kind of call that a room type stands for.
CallKind(room) ==
  IF room = RoomType(<<"0">>) THEN "[VideoCall]"
  ELSE IF room = RoomType(<<"1">>) THEN "[VoiceCall]"
  ELSE "[Call]"

\* The status phrases after the duration, in the order in which they are
\* looked for, each with the status it is reported as.
StatusRules ==
  << [has |-> {PhraseNoAnswer}, says |-> PhraseNoAnswer],
     [has |-> {PhraseCancelled}, says |-> PhraseCancelled],
     [has |-> {PhraseOtherDeviceA, PhraseOtherDeviceB}, says |-> PhraseOtherDeviceB],
     [has |-> {PhrasePeerDeclined, PhraseDeclined}, says |-> PhrasePeerDeclined],
     [has |-> {PhraseBusyMissed, PhraseBusy}, says |-> PhraseBusyMissed],
     [has |-> {PhraseMissed}, says |-> PhraseMissed] >>

\* The rules of which a status text has a phrase.
RulesOf(status) ==
  {i \in 1..Len(StatusRules) : \E phrase \in StatusRules[i].has : Includes(status, phrase)}

\* The summary of a call whose status text has no duration.
CallSummary(status, room) ==
  IF RulesOf(status) # {} THEN <<CallKind(room), " ">> \o StatusRules[Min(RulesOf(status))].says
  ELSE IF Trim(status) # <<>> THEN <<CallKind(room), " ">> \o Trim(status)
  ELSE <<CallKind(room)>>

SubTypeTag(subType) ==
  IF subType \in {<<"6">>, <<"0", "6">>} THEN 4
  ELSE IF subType \in {<<"3", "3">>, <<"3", "6">>} THEN 24
  ELSE IF subType = <<"5", "7">> THEN 25
  ELSE 7

\* C16: a message of code 49 gets its type tag from the embedded <type>:
\* 6 the file tag (4), 33 and 36 the share tag (24), 57 the reply tag (25),
\* any other or no sub-type the link tag (7); its summary is the content of
\* its <title>, CDATA markers unwrapped and trimmed. A message of
\* sub-type 6 with the title 'a' is summarised 'a' with the file tag.
C16_LinkSubTypes ==
  (par.phase = "done" /\ par.localType = "49") =>
    \A subType \in LinkSubTypes, title \in LinkTitles :
      par.content = LinkContent(subType, title) =>
        /\ par.type = SubTypeTag(subType)
        /\ title \in {Titled(<<"a">>), Titled(<<" ", "<![CDATA[", "a", "]]>", " ">>)} =>
             par.result = Str(<<"a">>)

\* C16 witness: a file message titled 'a' was summarised and tagged, and so
\* was a quoted reply whose title sits in a CDATA section.
C16_Witness ==
  /\ par.phase = "done"
  /\ par.localType = "49"
  /\ \/ /\ par.content = LinkContent(<<"6">>, Titled(<<"a">>))
        /\ par.type = 4
     \/ /\ par.content = LinkContent(<<"5", "7">>, Titled(<<" ", "<![CDATA[", "a", "]]>", " ">>))
        /\ par.type = 25
  /\ par.result = Str(<<"a">>)

\* A log of cursor calls in which every opened cursor is fetched from only
\* while it is open and closed once, before anything else happens: the log
\* is a sequence of refused openings and of  open fetch* close.
Scoped(log) ==
  \A i \in 1..Len(log) :
    /\ log[i] = "open" => i < Len(log) /\ log[i + 1] \in {"fetch", "close"}
    /\ log[i] = "fetch" =>
         /\ i > 1 /\ log[i - 1] \in {"open", "fetch"}
         /\ i < Len(log) /\ log[i + 1] \in {"fetch", "close"}
    /\ log[i] = "close" => i > 1 /\ log[i - 1] \in {"open", "fetch"}

\* The number of cursors open after the first n calls of a log.
RECURSIVE OpenAfter(_, _)
OpenAfter(log, n) ==
  IF n = 0 THEN 0
  ELSE OpenAfter(log, n - 1)
         + (IF log[n] = "open" THEN 1 ELSE IF log[n] = "close" THEN -1 ELSE 0)

\* The cursor calls of the entry point that ran.
CursorLog ==
  IF exp.phase = "done" THEN exp.out.w.cursors
  ELSE IF bat.pc \in {"loop", "returned"} THEN bat.w.cursors
  ELSE <<>>

\* C17: the cursor is a scoped resource. Once collectMessages has returned
\* or thrown, every cursor it opened has been closed exactly once, whatever
\* ended the batch loop; no batch is fetched from a closed cursor; and
\* during a batch export at most one cursor is open at any time.
C17_CursorScoped ==
  /\ Scoped(CursorLog)
  /\ OpenAfter(CursorLog, Len(CursorLog)) = 0
  /\ \A n \in 0..Len(CursorLog) : OpenAfter(CursorLog, n) \in {0, 1}

\* C17 witness: an export whose second batch rejected, or the sender of
\* whose second row could not be resolved, failed with its cursor closed.
C17_Witness ==
  /\ exp.phase = "done"
  /\ ~exp.out.v.success
  /\ \/ /\ Len(exp.e.sessions[exp.sessionId].batches) = 2
        /\ exp.e.sessions[exp.sessionId].batches[2].st = "throw"
        /\ exp.out.w.cursors = <<"open", "fetch", "fetch", "close">>
     \/ /\ exp.e.rejects = {IdU}
        /\ exp.out.w.cursors = <<"open", "fetch", "close">>

\* The usernames of a roster.
RosterNames(members) == {members[j].username : j \in 1..Len(members)} \ {<<>>}

\* The nickname that a roster member brings.
NickOf(member) ==
  Or(Or(Or(member.nickname, member.displayName), member.remark), member.originalName)

\* The first nickname that a roster has for a username.
FirstNick(members, username) ==
  LET js == {j \in 1..Len(members) :
               members[j].username = username /\ NickOf(members[j]) # <<>>}
  IN IF js = {} THEN <<>> ELSE NickOf(members[Min(js)])

\* C18: mergeGroupMembers only grows and backfills the member map. After
\* the merge the keys are those before it and the usernames of the roster;
\* no entry is removed or re-keyed, every roster entry that was absent is
\* added, and a groupNickname or avatar is set only where there was none
\* (the second roster entry of a username does not replace what the first
\* one set). If the roster lookup fails or is empty the map is unchanged.
C18_MergeOnlyGrows ==
  mrg.phase = "done" =>
    /\ (mrg.roster.st = "fail" \/ (mrg.roster.st = "ok" /\ mrg.roster.members = <<>>)) =>
         mrg.result = Ret(mrg.before)
    /\ ~mrg.result.ex =>
         /\ MapKeys(mrg.result.v) =
              MapKeys(mrg.before)
                \cup (IF mrg.roster.st = "ok" THEN RosterNames(mrg.roster.members) ELSE {})
         /\ Cardinality(MapKeys(mrg.result.v)) = Len(mrg.result.v)
         /\ \A i \in 1..Len(mrg.result.v) : mrg.result.v[i].platformId = mrg.result.v[i].key
         /\ \A i \in 1..Len(mrg.before) :
              /\ mrg.result.v[i].key = mrg.before[i].key
              /\ mrg.before[i].groupNickname # <<>> =>
                   mrg.result.v[i].groupNickname = mrg.before[i].groupNickname
              /\ mrg.before[i].avatarUrl # <<>> =>
                   mrg.result.v[i].avatarUrl = mrg.before[i].avatarUrl
              /\ (mrg.roster.st = "ok" /\ mrg.before[i].key \notin RosterNames(mrg.roster.members))
                   => mrg.result.v[i] = mrg.before[i]
         /\ \A i \in 1..Len(mrg.result.v) :
              (mrg.roster.st = "ok" /\ ~(i <= Len(mrg.before) /\ mrg.before[i].groupNickname # <<>>))
                => mrg.result.v[i].groupNickname =
                     FirstNick(mrg.roster.members, mrg.result.v[i].key)

\* C18 witness: a roster named a member twice, with a nickname and then a
\* remark, and with an avatar to be had; the member had an avatar before.
\* The first nickname and the old avatar are in the map, and the roster
\* added a member that was not there.
C18_Witness ==
  /\ mrg.phase = "done"
  /\ ~mrg.result.ex
  /\ mrg.includeAvatars
  /\ mrg.avatars.st = "ok"
  /\ \/ /\ mrg.before = <<SenderMember(IdA, NameAlice, <<"g">>), SenderMember(IdU, IdU, <<>>)>>
        /\ mrg.roster.members = <<RosterMember(IdA, <<"n">>, <<>>), RosterMember(IdA, <<>>, <<"r">>)>>
        /\ mrg.result.v[1].groupNickname = <<"n">>
        /\ mrg.result.v[1].avatarUrl = <<"g">>
     \/ /\ mrg.before = <<SenderMember(IdA, IdA, <<>>)>>
        /\ mrg.roster.members = <<RosterMember(IdU, <<"n">>, <<>>), RosterMember(IdA, <<>>, <<"r">>)>>
        /\ Len(mrg.result.v) = 2
        /\ mrg.result.v[2].key = IdU
        /\ mrg.result.v[1].groupNickname = <<"r">>
        /\ mrg.result.v[1].avatarUrl = <<"h">>

\* C19: every networked media download terminates with a result:
\* downloadFile follows a bounded number of redirects and then resolves to
\* true or false, also when every request is answered with a redirect, and
\* downloadToBuffer issues at most 3 requests before it resolves.
C19_DownloadsTerminate ==
  /\ <>(net.pc = "resolved")
  /\ [](net.fn = "downloadToBuffer" => net.requests <= 3)

\* C20: a message of code 49 with content and without a title (no <title>
\* element, or an empty one) is summarised with a bracketed label of its
\* own sub-type: a file (6), a share (33, 36) and a quoted reply (57) do
\* not get the label of the generic link.
C20_SubTypeLabels ==
  (par.phase = "done" /\ par.localType = "49") =>
    \A subType \in LinkSubTypes, title \in {Titled(<<>>), <<>>} :
      (par.content = LinkContent(subType, title) /\ par.content # <<>>) =>
        /\ ~par.result.ex
        /\ ~par.result.null
        /\ SubTypeTag(subType) # 7 => par.result.v # LabelLink

\* The text that the bytes of a hex column stand for when the latin1 decode
\* is taken only above one replacement marker in five characters.
DecodedOverFifth(data) ==
  IF 5 * CountOf(Utf8Decode(data), ReplacementChar) <= JsLength(Utf8Decode(data))
  THEN TextOfCodes(Filter(Utf8Decode(data), {ReplacementChar}))
  ELSE TextOfCodes(data)

HasMagic(data) == Len(data) >= 4 /\ SubSeq(data, 1, 4) = ZstdMagicLE

\* C21: for bytes without the compression magic, decodeBinaryContent takes
\* the latin1 decode if and only if more than 20% of the characters of the
\* UTF-8 decode are replacement markers: with k markers among n characters
\* the UTF-8 text is returned whenever 5k <= n, exactly 20% included.
C21_Latin1OnlyOverFifth ==
  ( /\ dec.phase = "done"
    /\ dec.compressContent.kind = "string"
    /\ looksLikeHex(dec.compressContent.s)
    /\ Len(BufferFromHex(dec.compressContent.s)) > 0
    /\ ~HasMagic(BufferFromHex(dec.compressContent.s)) )
  => dec.result = Ret(DecodedOverFifth(BufferFromHex(dec.compressContent.s)))

\* The rows that the cursor of the exported conversation delivers.
Delivered == DeliveredRows(exp.e.sessions[exp.sessionId].batches)

\* The places of the delivered rows that pass the date filter.
InRange == {k \in 1..Len(Delivered) : PassesDateFilter(Delivered[k], exp.options.dateRange)}

\* What collectMessages gives for the exported conversation.
Collected ==
  collectMessages(EmptyWorld, exp.e, exp.sessionId, ensureConnected(exp.e).v.cleanedWxid,
                  exp.options.dateRange)

Max(S) == CHOOSE x \in S : \A y \in S : x >= y

\* The time of a delivered row.
TimeOf(row) == parseInt(Or(row.create_time, <<"0">>))

\* The sender that a delivered row stands for.
SenderOf(row) ==
  IF parseInt(Or(Or(row.computed_is_send, row.is_send), <<"0">>)) = 1
  THEN ensureConnected(exp.e).v.cleanedWxid
  ELSE Or(row.sender_username, exp.sessionId)

\* Whether c is what the date filter of this export leaves of the delivered
\* rows, of which those at the places inRange pass it.
Filtered(c, delivered, inRange) ==
  /\ Len(c.rows) = Cardinality(inRange)
  /\ \A k \in inRange :
       LET place == Cardinality({j \in inRange : j <= k})
       IN /\ c.rows[place].createTime = TimeOf(delivered[k])
          /\ c.rows[place].localId = parseInt(Or(delivered[k].local_id, <<"0">>))
          /\ c.rows[place].senderUsername = SenderOf(delivered[k])
  /\ MapKeys(c.memberSet) = {SenderOf(delivered[k]) : k \in inRange}
  /\ inRange = {} => c.firstTime = NoTime /\ c.lastTime = NoTime
  /\ inRange # {} =>
       /\ c.firstTime = Min({TimeOf(delivered[k]) : k \in inRange})
       /\ c.lastTime = Max({TimeOf(delivered[k]) : k \in inRange})
  /\ exp.options.dateRange.on =>
       \A i \in 1..Len(c.rows) :
         /\ c.rows[i].createTime >= exp.options.dateRange.start
         /\ c.rows[i].createTime <= exp.options.dateRange.end
  /\ ~exp.options.dateRange.on => Len(c.rows) = Len(delivered)
  /\ exp.out.v.success => exp.out.fetched = c.rows

\* C22: the date range is applied to each row before it is accumulated.
\* With a dateRange, every accumulated row, and so every member created
\* from a sender and firstTime and lastTime, comes from a row with
\* start <= createTime <= end, and every fetched row within the range is
\* accumulated; without a dateRange every fetched row is. The rows of an
\* export that succeeded are these.
C22_DateFilterPerRow ==
  OnlyRowsAtRisk => (Collected.ex \/ Filtered(Collected, Delivered, InRange))

\* C22 witness: an export with a date range left out a row of a later time
\* that came between two rows within the range, and the sender of that row
\* is no member.
C22_Witness ==
  /\ OnlyRowsAtRisk
  /\ exp.out.v.success
  /\ exp.options.dateRange.on
  /\ Len(Delivered) = 3
  /\ InRange = {1, 3}
  /\ Len(exp.out.fetched) = 2
  /\ SenderOf(Delivered[2]) \notin MapKeys(Collected.memberSet)

\* The (localType, localId) pairs of some messages.
KeysOf(msgs) == {mediaKeyOf(msgs[i]) : i \in 1..Len(msgs)}

\* The place of the first message that has the pair of the message at i.
FirstOfKey(msgs, i) == Min({j \in 1..i : mediaKeyOf(msgs[j]) = mediaKeyOf(msgs[i])})

MediaOn(options) == options.exportImages \/ options.exportVoices \/ options.exportEmojis

\* Whether a content cell is the path of an exported media file.
IsMediaPath(cell) == Len(cell) > 0 /\ cell[1] = "media/"

\* The content cell of a row of a sheet.
ContentOf(row) == row[Len(row)]

\* Whether, in the rows of a sheet written from these messages, each message
\* has the media of the first message of its pair.
ReusesFirst(rows, msgs) ==
  \A i \in 1..Len(msgs) :
    IF IsMediaPath(ContentOf(rows[FirstOfKey(msgs, i)]))
    THEN ContentOf(rows[i]) = ContentOf(rows[FirstOfKey(msgs, i)])
    ELSE ~IsMediaPath(ContentOf(rows[i]))

\* Whether the log of media extractions is that of these messages, each
\* pair extracted once, for its first message.
ExtractedOnce(log, msgs) ==
  /\ Len(log) = Cardinality(KeysOf(msgs))
  /\ \A i, j \in 1..Len(log) : i # j => mediaKeyOf(log[i]) # mediaKeyOf(log[j])
  /\ \A i \in 1..Len(log) :
       \E j \in 1..Len(msgs) : FirstOfKey(msgs, j) = j /\ log[i] = msgs[j]

\* C23: within one Excel export, media is extracted at most once for each
\* (localType, localId) pair: the first message of a pair goes to
\* exportMediaForMessage and its result, null included, is kept; a later
\* message of the pair gets that result without another call. The cache
\* starts empty with each export: in a batch, the pairs of the second
\* conversation are extracted again.
C23_MediaOncePerPair ==
  /\ (exp.phase = "done" /\ exp.options.format = "excel") =>
       /\ \A i, j \in 1..Len(exp.out.w.media) :
            i # j => mediaKeyOf(exp.out.w.media[i]) # mediaKeyOf(exp.out.w.media[j])
       /\ ~MediaOn(exp.options) => exp.out.w.media = <<>>
       /\ (MediaOn(exp.options) /\ exp.out.v.success) =>
            /\ ExtractedOnce(exp.out.w.media, sortByCreateTime(exp.out.fetched))
            /\ ReusesFirst(exp.out.w.fs.files[OutputPath].rows,
                           sortByCreateTime(exp.out.fetched))
  /\ (bat.pc = "returned" /\ MediaOn(bat.options) /\ bat.successCount = 2) =>
       /\ Len(bat.w.media) = 2 * Cardinality(KeysOf(bat.w.media))
       /\ \A i \in 1..(Len(bat.w.media) \div 2) :
            bat.w.media[i] = bat.w.media[i + Len(bat.w.media) \div 2]

\* C23 witness: an Excel export of two images with the same local id, the
\* second with another checksum, extracted the first only and wrote its
\* path in both rows.
C23_Witness ==
  /\ exp.phase = "done"
  /\ exp.out.v.success
  /\ exp.options.exportImages
  /\ Len(exp.out.fetched) = 2
  /\ exp.out.fetched[1].imageMd5 = <<"m">>
  /\ exp.out.fetched[2].imageMd5 = <<"n">>
  /\ Len(exp.out.w.media) = 1
  /\ exp.out.w.media[1] = exp.out.fetched[1]
  /\ IsMediaPath(ContentOf(exp.out.w.fs.files[OutputPath].rows[1]))
  /\ ContentOf(exp.out.w.fs.files[OutputPath].rows[2])
       = ContentOf(exp.out.w.fs.files[OutputPath].rows[1])


\* Whether no identifier is asked twice of the same lookup in a log.
NeverAskedTwice(log) ==
  \A i, j \in 1..Len(log) :
    (i < j /\ log[i].fn = log[j].fn) => log[i].ids \cap log[j].ids = {}

\* The lookups of a log that getContactInfo made.
InfoAsked(log) == SelectSeq(log, LAMBDA a : a.fn # "getContact")

\* C24: within one export, the lookup of a name, of an avatar or of a
\* contact is never asked again for an identifier it was already asked for:
\* not while messages are resolved, not when the roster is merged, not when
\* the rows are written.
C24_NeverRequeried ==
  exp.phase = "done" => NeverAskedTwice(exp.out.w.asked)

\* C24, the part that getContactInfo keeps: outside a group, the names and
\* avatars of an export are asked once for each identifier.
C24_InfoMemoized ==
  (exp.phase = "done" /\ ~Includes(exp.sessionId, <<"@chatroom">>)) =>
    NeverAskedTwice(InfoAsked(exp.out.w.asked))


\* What the second export of a service would have given on a service whose
\* contact cache is empty, all else as it was.
FreshJob ==
  exportCalled([exp.before EXCEPT !.cache = <<>>], exp.e, exp.sessionId, exp.options,
               exp.onProgress)

\* C25: an export starts with an empty contact cache, so the file it writes
\* and the result it returns are those it would give on a service that has
\* cached nothing: they depend on what the lookups answer during this
\* export, not on what an earlier export of the service was answered.
C25_NoCacheAcrossJobs ==
  exp.phase = "again" =>
    /\ exp.out.v = FreshJob.v
    /\ exp.out.w.fs = FreshJob.w.fs


\* Whether the failure of the finished export is that of writing its output
\* file: the same export succeeds on a disk that takes the file.
WriteFailed ==
  /\ ~exp.out.v.success
  /\ exportCalled(EmptyWorld,
                  [exp.e EXCEPT !.sessions[exp.sessionId].write = "ok"],
                  exp.sessionId, exp.options, exp.onProgress).v.success

\* Whether the disk refuses the output file with the signature of a busy
\* file.
BusyDisk ==
  \/ exp.e.sessions[exp.sessionId].write = "busy"
  \/ exp.e.sessions[exp.sessionId].write = "throw" /\ busySignature(exp.e.thrown)

\* C26: in every writer, an output file that is busy or locked ends the
\* export with the hint to close the file; and an export ends with that
\* hint only when writing its output file failed.
C26_BusyWriteMessage ==
  (exp.phase = "done" /\ ~exp.out.v.success) =>
    /\ (BusyDisk /\ WriteFailed) => exp.out.v.error = ErrorBusy
    /\ exp.out.v.error = ErrorBusy => WriteFailed


\* Whether no conversation occurs twice in a list.
Distinct(sessionIds) ==
  \A i, j \in 1..Len(sessionIds) : i # j => sessionIds[i] # sessionIds[j]

\* C27: a batch of distinct conversations writes each successful
\* conversation to a path of its own, also when two of them have the same
\* display name or names that differ only in characters replaced for the
\* file name: when exportSessions has returned, the disk holds as many
\* output files as conversations were exported with success.
C27_DistinctPaths ==
  (bat.pc = "returned" /\ ConnectionPassed(bat.e) /\ Distinct(bat.sessionIds)
     /\ ~MediaOn(bat.options)) =>
    Cardinality(DOMAIN bat.w.fs.files) = bat.result.successCount


\* Whether two messages carry different media: another kind, another image
\* or emoji checksum or address, or two voice messages of different times.
DifferentMedia(a, b) ==
  \/ a.localType # b.localType
  \/ a.localType = "3" /\ (a.imageMd5 # b.imageMd5 \/ a.imageDatName # b.imageDatName)
  \/ a.localType = "47" /\ (a.emojiMd5 # b.emojiMd5 \/ a.emojiCdnUrl # b.emojiCdnUrl)
  \/ a.localType = "34" /\ a.createTime # b.createTime

\* Whether no two rows of a sheet written from these messages name the same
\* media file for messages of different media.
OwnMedia(rows, msgs) ==
  \A i, j \in 1..Len(msgs) :
    (i < j /\ DifferentMedia(msgs[i], msgs[j]) /\ IsMediaPath(ContentOf(rows[i])))
      => ContentOf(rows[j]) # ContentOf(rows[i])

\* C28: the media path written for a message is that of its own media: two
\* messages of one export whose media differ never get the same path, also
\* when their local ids are equal or missing.
C28_OwnMediaReference ==
  (exp.phase = "done" /\ exp.options.format = "excel" /\ MediaOn(exp.options)
     /\ exp.out.v.success) =>
    OwnMedia(exp.out.w.fs.files[OutputPath].rows, sortByCreateTime(exp.out.fetched))


\* Whether the batch loop over these answers of fetchMessageBatch stops at
\* an answer that says there is no more.
RECURSIVE RanToEnd(_)
RanToEnd(batches) ==
  /\ batches # <<>>
  /\ Head(batches).st = "ok"
  /\ (~Head(batches).hasMore \/ RanToEnd(Tail(batches)))

\* C29: an export of one conversation returns success only if its batch
\* loop ran to the end, to an answer of the cursor without more data: when
\* fetchMessageBatch fails after some batches, no success is returned for a
\* document of the rows read so far.
C29_SuccessOnlyAtEnd ==
  (exp.phase = "done" /\ exp.out.v.success) =>
    RanToEnd(exp.e.sessions[exp.sessionId].batches)


\* Whether the file that an exported item names is one whose download broke
\* off after the write stream had created it: a file without the body.
BrokenOff(fs, item) == fs.files[DestOf(item)] = <<>>

\* C30: exportEmoji returns an item only for a file whose download was
\* completed: once a download has failed after its write stream was opened,
\* no later extraction into the same directory returns the path of that
\* file as an exported emoji.
C30_OnlyCompletedDownloads ==
  (med.last.msg # <<>> /\ med.last.v.kind = "emoji") => ~BrokenOff(med.fs, med.last.v)

====
